---- MODULE Spec2Model ----
(***************************************************************************)
(* clang-cpg: a code property graph built from a C translation unit.      *)
(*                                                                         *)
(* The driver (main.rs) runs three passes over one translation unit:       *)
(*   find_all_functions      function discovery                            *)
(*   analyze_program         AST analysis                                  *)
(*   fix_disconnected_calls  reconciliation with the source scanner        *)
(* The model keeps the graph as two sequences (petgraph's node and edge    *)
(* arenas); node index i of the model is petgraph index i-1, and 0 stands  *)
(* for "no node" (Option::None).                                           *)
(***************************************************************************)
EXTENDS Integers, Sequences, FiniteSets, TLC

VARIABLES source_code, tu, memory_tracking, format, phase, graph, node_map, usr_map,
          pointer_targets, processed, function_calls, pthread_assignments,
          ast_graph, output

vars == <<source_code, tu, memory_tracking, format, phase, graph, node_map, usr_map,
          pointer_targets, processed, function_calls, pthread_assignments, output,
          ast_graph>>

(***************************************************************************)
(* Bounds of the model.                                                    *)
(***************************************************************************)
\* statements in the body of the analysed caller
MaxStmts == 2
\* pairs in each list the source scanner hands to reconciliation
MaxPairs == 2
\* lines of the text the source scanner reads
MaxLines == 4

(***************************************************************************)
(* Front-end entities (clang::Entity).  get_name() = None is modelled by   *)
(* the name None; an entity without source location has loc = 0.           *)
(***************************************************************************)
None == "<none>"

NoRef == [some |-> FALSE, name |-> None, usr |-> None]

Ref(name, usr) == [some |-> TRUE, name |-> name, usr |-> usr]

\* format!("{:?}", entity.get_usr()) of a function declaration
FuncUsr(name) == "Some(Usr(c:@F@" \o name \o "))"

\* format!("{:?}", entity.get_usr()) of a parameter or a local variable
VarUsr(name) == "Some(Usr(c:@" \o name \o "))"

Ent(kind, name, children) ==
    [kind |-> kind, name |-> name, display |-> name, type |-> None,
     usr |-> None, loc |-> 0, sys |-> FALSE, ref |-> NoRef,
     args |-> <<>>, children |-> children]

DeclRef(name) == Ent("DeclRefExpr", name, <<>>)

IntLit == Ent("IntegerLiteral", None, <<>>)

Unexposed(name, children) == Ent("UnexposedExpr", name, children)

Compound(stmts) == Ent("CompoundStmt", None, stmts)

\* a call whose callee the front-end bound: children = callee, arguments
Call(ref, args) ==
    [Ent("CallExpr", ref.name, <<Unexposed(ref.name, <<DeclRef(ref.name)>>)>> \o args)
        EXCEPT !.ref = ref, !.args = args]

\* a call whose callee the front-end did not bind (get_reference() = None)
UnboundCall(name, args) ==
    [Ent("CallExpr", None, <<DeclRef(name)>> \o args) EXCEPT !.args = args]

Unary(op, operand) ==
    [Ent("UnaryOperator", None, <<operand>>) EXCEPT !.display = op]

Binary(op, lhs, rhs) ==
    [Ent("BinaryOperator", None, <<lhs, rhs>>) EXCEPT !.display = op]

VarDecl(name, type, init) ==
    [Ent("VarDecl", name, init) EXCEPT !.type = type, !.usr = VarUsr(name)]

DeclStmt(decls) == Ent("DeclStmt", None, decls)

ParmDecl(name, type) ==
    [Ent("ParmDecl", name, <<>>) EXCEPT !.type = type, !.usr = VarUsr(name)]

\* children of a FunctionDecl: its parameters, then its body when it has one;
\* type is the display name of the result type of its function type
FunctionDecl(name, params, body) ==
    [Ent("FunctionDecl", name, params \o body)
        EXCEPT !.usr = FuncUsr(name), !.args = params, !.type = "void"]

IfStmt(children) == Ent("IfStmt", None, children)

WhileStmt(children) == Ent("WhileStmt", None, children)

ForStmt(children) == Ent("ForStmt", None, children)

MemberRef(member, base) == Ent("MemberRefExpr", member, <<base>>)

ArraySubscript(base, index) == Ent("ArraySubscriptExpr", None, <<base, index>>)

(***************************************************************************)
(* Predicates of utils.rs.                                                 *)
(***************************************************************************)
is_system_entity(entity) == entity.loc # 0 /\ entity.sys

get_entity_id(entity) ==
    IF entity.name # None
    THEN IF entity.loc # 0 THEN <<entity.name, entity.loc>> ELSE <<entity.name>>
    ELSE <<entity.kind>>

is_unsafe_function(name) ==
    name \in {"strcpy", "strcat", "sprintf", "gets", "scanf", "vsprintf",
              "memcpy", "memmove", "strncpy", "strncat"}

is_standard_library_function(name) ==
    name \in {"printf", "sprintf", "fprintf", "snprintf", "vprintf", "vsprintf",
              "vfprintf", "vsnprintf", "scanf", "sscanf", "fscanf", "vscanf",
              "vsscanf", "vfscanf", "malloc", "calloc", "realloc",
              "aligned_alloc", "free", "exit", "abort", "atexit", "_Exit",
              "system", "getenv", "setenv", "putenv", "unsetenv", "time",
              "clock", "difftime", "mktime", "asctime", "ctime", "gmtime",
              "localtime", "strftime", "rand", "srand", "rand_r", "atoi",
              "atol", "atoll", "strtol", "strtoll", "strtoul", "strtoull",
              "memcpy", "memmove", "memset", "memcmp", "memchr", "memccpy",
              "strlen", "strnlen", "strcpy", "strncpy", "strcat", "strncat",
              "strcmp", "strncmp", "strchr", "strrchr", "strstr", "strtok",
              "fopen", "fclose", "fflush", "fread", "fwrite", "fseek", "ftell",
              "fgetpos", "fsetpos"}

(***************************************************************************)
(* Display type names the bounded inputs use, and the substring tests the  *)
(* code applies to them (type.contains("char *"), contains('*'), ...).     *)
(***************************************************************************)
TypeContainsCharStar(t) == t \in {"char *", "const char *"}

TypeContainsStar(t) ==
    t \in {"char *", "const char *", "int *", "void *", "void (*)(void)"}

TypeContainsBrackets(t) == t \in {"int [8]", "char [8]"}

(***************************************************************************)
(* The graph store: DiGraph<Node, Edge>.  A node label is the pair         *)
(* <<prefix, rest>> of the format! call that builds it, so that            *)
(* starts_with("Call: ") and the slice name[6..] are the two components.   *)
(* The field origin is a history tag (which code site created the node);   *)
(* the code does not read it.                                              *)
(***************************************************************************)
EmptyGraph == [nodes |-> <<>>, edges |-> <<>>]

Label(prefix, rest) == <<prefix, rest>>

\* a node that carries type_info: Some(type_info)
add_typed_node(g, name, kind, origin, type_info) ==
    [g EXCEPT !.nodes = Append(@, [name |-> name, kind |-> kind, origin |-> origin,
                                   type_info |-> type_info])]

\* a node with type_info: None
add_node(g, name, kind, origin) == add_typed_node(g, name, kind, origin, None)

\* the index add_node returns
NewIdx(g) == Len(g.nodes) + 1

add_edge(g, src, dst, kind) ==
    [g EXCEPT !.edges = Append(@, [src |-> src, dst |-> dst, kind |-> kind])]

\* graph.edges(n): the outgoing edges of n, most recently added first
RECURSIVE OutEdgesFrom(_, _, _)
OutEdgesFrom(g, n, i) ==
    IF i = 0 THEN <<>>
    ELSE IF g.edges[i].src = n
         THEN <<g.edges[i]>> \o OutEdgesFrom(g, n, i - 1)
         ELSE OutEdgesFrom(g, n, i - 1)

edges(g, n) == OutEdgesFrom(g, n, Len(g.edges))

(***************************************************************************)
(* Symbol tables: HashMap<String, NodeIndex> and HashMap<NodeIndex, _>.    *)
(***************************************************************************)
EmptyMap == <<>>

contains_key(m, k) == k \in DOMAIN m

get(m, k) == IF k \in DOMAIN m THEN m[k] ELSE 0

insert(m, k, v) == [x \in (DOMAIN m) \cup {k} |-> IF x = k THEN v ELSE m[x]]

(***************************************************************************)
(* Analysis state threaded through the visitor: the graph, by_name         *)
(* (node_map), pointer_targets, by_usr (usr_map) and the processed set.    *)
(* The statement visitors receive the usr_map they may consult as the      *)
(* separate argument um, because nested visitors are handed a fresh        *)
(* HashMap::new() in its place; likewise mt is the memory_tracking         *)
(* argument, which nested visitors receive as false.                       *)
(***************************************************************************)
State(g, nm, pt, um, pr) == [g |-> g, nm |-> nm, pt |-> pt, um |-> um, pr |-> pr]

WithGraph(st, g) == [st EXCEPT !.g = g]

IsAllocator(name) == name \in {"malloc", "calloc", "realloc"}

(***************************************************************************)
(* process_call_expression and its helpers (processors_ext.rs).            *)
(***************************************************************************)
extract_function_name_from_call(entity) ==
    IF Len(entity.children) > 0 /\ entity.children[1].kind = "DeclRefExpr"
    THEN entity.children[1].name
    ELSE None

\* the called function: by USR first, then by name
ResolveCallee(usr, function_name, nm, um) ==
    LET by_usr == IF usr # None /\ usr # "" THEN get(um, usr) ELSE 0
    IN  IF by_usr # 0 THEN by_usr ELSE get(nm, function_name)

CallNodeType(function_name, mt) ==
    IF is_unsafe_function(function_name) THEN "UnsafeCall"
    ELSE IF mt /\ function_name \in {"malloc", "calloc", "realloc", "free"}
         THEN "MemoryOp"
         ELSE "Call"

CallLabel(function_name, mt) ==
    IF is_unsafe_function(function_name) THEN Label("Unsafe: ", function_name)
    ELSE IF mt /\ function_name \in {"malloc", "calloc", "realloc", "free"}
         THEN Label("MemoryOp: ", function_name)
         ELSE Label("Call: ", function_name)

\* AddCallNode with the Contains edge drawn from the call to its parent
AddCallNode_Reversed(g, function_name, mt, parent_idx) ==
    add_edge(add_node(g, CallLabel(function_name, mt), CallNodeType(function_name, mt),
                      "call_site"),
             NewIdx(g), parent_idx, "Contains")

\* the node of the call, contained in the parent
AddCallNode(g, function_name, mt, parent_idx) ==
    add_edge(add_node(g, CallLabel(function_name, mt), CallNodeType(function_name, mt),
                      "call_site"),
             parent_idx, NewIdx(g), "Contains")

\* AddShadow with the Controls edge drawn from the call to its shadow
AddShadow_Reversed(g, function_name, call_idx) ==
    LET unsafe_idx == NewIdx(g)
    IN  add_edge(add_node(g, Label("Unsafe: ", function_name), "UnsafeCall", "shadow"),
                 call_idx, unsafe_idx, "Controls")

\* for unsafe calls, another node that controls the call node
AddShadow(g, function_name, call_idx) ==
    LET unsafe_idx == NewIdx(g)
    IN  add_edge(add_node(g, Label("Unsafe: ", function_name), "UnsafeCall", "shadow"),
                 unsafe_idx, call_idx, "Controls")

\* free(p): the memory operation frees the pointer named by the first argument
AddFrees(g, entity, call_idx, nm) ==
    IF Len(entity.args) > 0
       /\ entity.args[1].kind = "DeclRefExpr"
       /\ entity.args[1].name # None
       /\ contains_key(nm, entity.args[1].name)
    THEN add_edge(g, call_idx, nm[entity.args[1].name], "Frees")
    ELSE g

\* the entity at which process_call_argument's descent along first children stops
RECURSIVE ArgumentSpine(_)
ArgumentSpine(current) ==
    IF current.kind = "DeclRefExpr" \/ Len(current.children) = 0
    THEN current
    ELSE ArgumentSpine(current.children[1])

process_call_argument(arg, call_idx, g, nm, pt) ==
    LET current == ArgumentSpine(arg)
    IN  IF current.kind = "DeclRefExpr" /\ current.name # None
           /\ contains_key(nm, current.name)
        THEN LET var_idx == nm[current.name]
                 g1 == add_edge(g, call_idx, var_idx, "Uses")
             IN  IF contains_key(pt, var_idx)
                 THEN add_edge(g1, call_idx, pt[var_idx], "Uses")
                 ELSE g1
        ELSE g

RECURSIVE ProcessCallArguments(_, _, _, _, _, _)
ProcessCallArguments(args, i, call_idx, g, nm, pt) ==
    IF i > Len(args) THEN g
    ELSE ProcessCallArguments(args, i + 1, call_idx,
                              process_call_argument(args[i], call_idx, g, nm, pt), nm, pt)

\* the References edges one argument of a call yields: the argument itself,
\* then its DeclRefExpr children
RECURSIVE NestedPointerRefs(_, _, _, _, _)
NestedPointerRefs(children, i, parent_idx, g, nm) ==
    IF i > Len(children) THEN g
    ELSE LET child == children[i]
             g1 == IF child.kind = "DeclRefExpr" /\ child.name # None
                      /\ contains_key(nm, child.name)
                   THEN add_edge(g, parent_idx, nm[child.name], "References")
                   ELSE g
         IN  NestedPointerRefs(children, i + 1, parent_idx, g1, nm)

ArgumentPointerRefs(arg, parent_idx, g, nm) ==
    IF arg.kind \in {"DeclRefExpr", "UnexposedExpr"}
    THEN LET g1 == IF arg.name # None /\ contains_key(nm, arg.name)
                   THEN add_edge(g, parent_idx, nm[arg.name], "References")
                   ELSE g
         IN  NestedPointerRefs(arg.children, 1, parent_idx, g1, nm)
    ELSE g

RECURSIVE ArgumentsPointerRefs(_, _, _, _, _)
ArgumentsPointerRefs(args, i, parent_idx, g, nm) ==
    IF i > Len(args) THEN g
    ELSE ArgumentsPointerRefs(args, i + 1, parent_idx,
                              ArgumentPointerRefs(args[i], parent_idx, g, nm), nm)

RECURSIVE process_function_pointer_references(_, _, _, _)
RECURSIVE PointerRefsOfChildren(_, _, _, _, _)
process_function_pointer_references(entity, parent_idx, g, nm) ==
    IF entity.kind = "CallExpr"
    THEN ArgumentsPointerRefs(entity.args, 1, parent_idx, g, nm)
    ELSE PointerRefsOfChildren(entity.children, 1, parent_idx, g, nm)

PointerRefsOfChildren(children, i, parent_idx, g, nm) ==
    IF i > Len(children) THEN g
    ELSE PointerRefsOfChildren(children, i + 1, parent_idx,
            process_function_pointer_references(children[i], parent_idx, g, nm), nm)

process_call_expression(entity, parent_idx, st, um, mt) ==
    LET called_entity == entity.ref
        function_name == IF called_entity.some THEN called_entity.name
                         ELSE extract_function_name_from_call(entity)
    IN  IF function_name = None THEN st
        ELSE LET usr == IF called_entity.some THEN called_entity.usr ELSE None
                 call_idx == NewIdx(st.g)
                 g1 == AddCallNode(st.g, function_name, mt, parent_idx)
                 func_idx == ResolveCallee(usr, function_name, st.nm, um)
                 g2 == IF func_idx # 0
                       THEN add_edge(g1, call_idx, func_idx, "Calls")
                       ELSE g1
                 g3 == IF is_unsafe_function(function_name)
                       THEN AddShadow(g2, function_name, call_idx)
                       ELSE g2
                 g4 == IF CallNodeType(function_name, mt) = "MemoryOp"
                          /\ function_name = "free"
                       THEN AddFrees(g3, entity, call_idx, st.nm)
                       ELSE g3
                 g5 == ProcessCallArguments(entity.args, 1, call_idx, g4, st.nm, st.pt)
             IN  WithGraph(st, process_function_pointer_references(entity, call_idx, g5, st.nm))

(***************************************************************************)
(* Variable declarations and initializers (processors.rs).                 *)
(***************************************************************************)
VarNodeType(t) ==
    IF TypeContainsCharStar(t) THEN "BufferParameter"
    ELSE IF TypeContainsStar(t) THEN "Pointer"
    ELSE IF TypeContainsBrackets(t) THEN "Array"
    ELSE "Variable"

VarLabel(name, t) ==
    IF TypeContainsCharStar(t) THEN Label("BufferParam: ", name \o " (" \o t \o ")")
    ELSE IF TypeContainsStar(t) THEN Label("Pointer: ", name \o " (" \o t \o ")")
    ELSE IF TypeContainsBrackets(t) THEN Label("Array: ", name \o " (" \o t \o ")")
    ELSE Label("Var: ", name)

IsPointerKind(g, idx) == g.nodes[idx].kind \in {"Pointer", "BufferParameter"}

\* initialization with an allocator call: a MemoryOp node the variable allocates
InitializerAllocation(entity, var_idx, g) ==
    IF entity.ref.some /\ entity.ref.name # None /\ IsAllocator(entity.ref.name)
    THEN LET mem_op_idx == NewIdx(g)
         IN  add_edge(add_node(g, Label("MemoryOp: ", entity.ref.name), "MemoryOp",
                               "initializer"),
                      var_idx, mem_op_idx, "Allocates")
    ELSE g

\* initialization from another variable: a Uses edge, and an alias when it is a pointer
InitializerAlias(st, var_idx, ref_idx) ==
    LET g1 == add_edge(st.g, var_idx, ref_idx, "Uses")
    IN  IF IsPointerKind(g1, ref_idx)
        THEN [st EXCEPT !.g = g1, !.pt = insert(st.pt, var_idx, ref_idx)]
        ELSE [st EXCEPT !.g = g1]

\* &X on the right: a Points edge from the pointer and pointer_targets[pointer] = X
RECURSIVE AddressOfTargets(_, _, _, _)
AddressOfTargets(children, i, ptr_idx, st) ==
    IF i > Len(children) THEN st
    ELSE LET child == children[i]
             st1 == IF child.kind = "DeclRefExpr" /\ child.name # None
                       /\ contains_key(st.nm, child.name)
                    THEN [st EXCEPT
                            !.g = add_edge(st.g, ptr_idx, st.nm[child.name], "Points"),
                            !.pt = insert(st.pt, ptr_idx, st.nm[child.name])]
                    ELSE st
         IN  AddressOfTargets(children, i + 1, ptr_idx, st1)

RECURSIVE InitializerArguments(_, _, _, _, _)
InitializerArguments(args, i, var_idx, g, nm) ==
    IF i > Len(args) THEN g
    ELSE InitializerArguments(args, i + 1, var_idx,
            process_function_pointer_references(args[i], var_idx, g, nm), nm)

RECURSIVE process_initializer(_, _, _)
RECURSIVE InitializerChildren(_, _, _, _)
process_initializer(entity, var_idx, st) ==
    CASE entity.kind = "CallExpr" ->
           WithGraph(st, InitializerArguments(entity.args, 1, var_idx,
                            InitializerAllocation(entity, var_idx, st.g), st.nm))
      [] entity.kind = "DeclRefExpr" ->
           IF entity.name # None /\ contains_key(st.nm, entity.name)
           THEN InitializerAlias(st, var_idx, st.nm[entity.name])
           ELSE st
      [] entity.kind = "UnaryOperator" ->
           IF entity.display = "&"
           THEN AddressOfTargets(entity.children, 1, var_idx, st)
           ELSE st
      [] OTHER -> InitializerChildren(entity.children, 1, var_idx, st)

InitializerChildren(children, i, var_idx, st) ==
    IF i > Len(children) THEN st
    ELSE InitializerChildren(children, i + 1, var_idx,
                             process_initializer(children[i], var_idx, st))

InitializerKinds ==
    {"BinaryOperator", "CallExpr", "UnaryOperator", "IntegerLiteral",
     "StringLiteral", "DeclRefExpr"}

\* index of the first entity of a sequence whose kind is in kinds, 0 when none
RECURSIVE FindKind(_, _, _)
FindKind(children, i, kinds) ==
    IF i > Len(children) THEN 0
    ELSE IF children[i].kind \in kinds THEN i
    ELSE FindKind(children, i + 1, kinds)

\* the entity has a name: the new node has index NewIdx(st.g)
process_variable_decl(entity, st) ==
    IF entity.name = None THEN st
    ELSE LET var_idx == NewIdx(st.g)
             st1 == [st EXCEPT
                        !.g = add_typed_node(st.g, VarLabel(entity.name, entity.type),
                                             VarNodeType(entity.type), "variable",
                                             entity.type),
                        !.nm = insert(st.nm, entity.name, var_idx)]
             init == FindKind(entity.children, 1, InitializerKinds)
         IN  IF init # 0
             THEN process_initializer(entity.children[init], var_idx, st1)
             ELSE st1

(***************************************************************************)
(* The statement visitor (processors.rs, processors_ext.rs).               *)
(***************************************************************************)
\* a DeclRefExpr resolvable in by_name yields an edge of the given kind from src
RefEdge(g, nm, entity, src, kind) ==
    IF entity.kind = "DeclRefExpr" /\ entity.name # None /\ contains_key(nm, entity.name)
    THEN add_edge(g, src, nm[entity.name], kind)
    ELSE g

\* edges from src to the DeclRefExpr entities among children (not below them)
RECURSIVE ChildRefEdges(_, _, _, _, _, _)
ChildRefEdges(children, i, g, nm, src, kind) ==
    IF i > Len(children) THEN g
    ELSE ChildRefEdges(children, i + 1, RefEdge(g, nm, children[i], src, kind),
                       nm, src, kind)

RECURSIVE find_variable_refs(_, _, _, _, _)
RECURSIVE VariableRefsOfChildren(_, _, _, _, _, _)
find_variable_refs(entity, parent_idx, g, nm, edge_type) ==
    VariableRefsOfChildren(entity.children, 1, parent_idx,
                           RefEdge(g, nm, entity, parent_idx, edge_type), nm, edge_type)

VariableRefsOfChildren(children, i, parent_idx, g, nm, edge_type) ==
    IF i > Len(children) THEN g
    ELSE VariableRefsOfChildren(children, i + 1, parent_idx,
            find_variable_refs(children[i], parent_idx, g, nm, edge_type), nm, edge_type)

\* assignment from an allocator call: a MemoryOp node the assignment uses and
\* the target allocates
AssignmentAllocation(entity, assign_idx, target_idx, g) ==
    IF entity.ref.some /\ entity.ref.name # None /\ IsAllocator(entity.ref.name)
    THEN LET mem_op_idx == NewIdx(g)
             g1 == add_node(g, Label("MemoryOp: ", entity.ref.name), "MemoryOp",
                            "assignment")
         IN  add_edge(add_edge(g1, assign_idx, mem_op_idx, "Uses"),
                      target_idx, mem_op_idx, "Allocates")
    ELSE g

\* AssignmentAlias with the alias recorded for the source instead of the target
AssignmentAlias_Swapped(st, assign_idx, target_idx, ref_idx) ==
    LET g1 == add_edge(st.g, assign_idx, ref_idx, "Uses")
    IN  IF IsPointerKind(g1, ref_idx)
        THEN [st EXCEPT !.g = g1, !.pt = insert(st.pt, ref_idx, target_idx)]
        ELSE [st EXCEPT !.g = g1]

\* assignment from another variable: the assignment uses it, and the target
\* aliases it when it is a pointer
AssignmentAlias(st, assign_idx, target_idx, ref_idx) ==
    LET g1 == add_edge(st.g, assign_idx, ref_idx, "Uses")
    IN  IF IsPointerKind(g1, ref_idx)
        THEN [st EXCEPT !.g = g1, !.pt = insert(st.pt, target_idx, ref_idx)]
        ELSE [st EXCEPT !.g = g1]

\* the node an assignment's left-hand side names, 0 when it names none
AssignmentTarget(lhs, nm) ==
    IF lhs.kind = "DeclRefExpr" /\ lhs.name # None THEN get(nm, lhs.name) ELSE 0

\* a dereference of a pointer known by name: Uses the pointer, Accesses its target
DereferenceRef(g, nm, pt, child, deref_idx) ==
    IF child.name # None /\ contains_key(nm, child.name)
    THEN LET ptr_idx == nm[child.name]
             g1 == add_edge(g, deref_idx, ptr_idx, "Uses")
         IN  IF contains_key(pt, ptr_idx)
             THEN add_edge(g1, deref_idx, pt[ptr_idx], "Accesses")
             ELSE g1
    ELSE g

ConditionKinds == {"BinaryOperator", "UnaryOperator", "DeclRefExpr"}

\* the Uses edges of an if statement: the direct children of the first child
\* whose kind is an operator or a reference
IfConditionUses(entity, if_idx, g, nm) ==
    LET cond == FindKind(entity.children, 1, ConditionKinds)
    IN  IF cond # 0
        THEN ChildRefEdges(entity.children[cond].children, 1, g, nm, if_idx, "Uses")
        ELSE g

\* the Uses edges of a loop: the direct children of every child whose kind is
\* an operator or a reference
RECURSIVE LoopConditionUses(_, _, _, _, _)
LoopConditionUses(children, i, loop_idx, g, nm) ==
    IF i > Len(children) THEN g
    ELSE LET g1 == IF children[i].kind \in ConditionKinds
                   THEN ChildRefEdges(children[i].children, 1, g, nm, loop_idx, "Uses")
                   ELSE g
         IN  LoopConditionUses(children, i + 1, loop_idx, g1, nm)

\* AddBlock adding its Contains edge twice
AddBlock_Doubled(g, owner_idx, label) ==
    add_edge(add_edge(add_node(g, Label("BasicBlock: ", label), "BasicBlock", "block"),
                      owner_idx, NewIdx(g), "Contains"),
             owner_idx, NewIdx(g), "Contains")

\* a basic block under owner_idx: the node and the Contains edge
AddBlock(g, owner_idx, label) ==
    add_edge(add_node(g, Label("BasicBlock: ", label), "BasicBlock", "block"),
             owner_idx, NewIdx(g), "Contains")

RECURSIVE process_statement(_, _, _, _, _)
RECURSIVE ProcessStatements(_, _, _, _, _, _)
RECURSIVE ProcessDeclarations(_, _, _, _)
RECURSIVE process_binary_operator(_, _, _)
RECURSIVE process_assignment_value(_, _, _, _)
RECURSIVE AssignmentValueChildren(_, _, _, _, _)
RECURSIVE process_unary_operator(_, _, _)
RECURSIVE DereferenceChildren(_, _, _, _)
RECURSIVE AddressOfChildren(_, _, _, _)
RECURSIVE process_member_access(_, _, _)
RECURSIVE MemberAccessChildren(_, _, _, _)
RECURSIVE process_array_access(_, _, _)
RECURSIVE process_if_statement(_, _, _, _)
RECURSIVE process_loop(_, _, _, _, _)

\* for child in children { process_statement(child, parent_idx, ...) }
ProcessStatements(children, i, parent_idx, st, um, mt) ==
    IF i > Len(children) THEN st
    ELSE ProcessStatements(children, i + 1, parent_idx,
                           process_statement(children[i], parent_idx, st, um, mt), um, mt)

\* the VarDecl children of a DeclStmt, each connected to the parent
ProcessDeclarations(children, i, parent_idx, st) ==
    IF i > Len(children) THEN st
    ELSE LET child == children[i]
             st1 == IF child.kind = "VarDecl"
                    THEN LET st2 == process_variable_decl(child, st)
                         IN  IF child.name # None
                             THEN WithGraph(st2, add_edge(st2.g, parent_idx,
                                                          NewIdx(st.g), "Contains"))
                             ELSE st2
                    ELSE st
         IN  ProcessDeclarations(children, i + 1, parent_idx, st1)

process_statement(entity, parent_idx, st, um, mt) ==
    CASE entity.kind = "CallExpr" ->
           process_call_expression(entity, parent_idx, st, um, mt)
      [] entity.kind = "DeclStmt" ->
           ProcessDeclarations(entity.children, 1, parent_idx, st)
      [] entity.kind \in {"BinaryOperator", "CompoundAssignOperator", "CStyleCastExpr"} ->
           process_binary_operator(entity, parent_idx, st)
      [] entity.kind = "UnaryOperator" ->
           process_unary_operator(entity, parent_idx, st)
      [] entity.kind = "IfStmt" ->
           LET st1 == process_if_statement(entity, st, um, mt)
           IN  WithGraph(st1, add_edge(st1.g, parent_idx, NewIdx(st.g), "Contains"))
      [] entity.kind = "ForStmt" ->
           LET st1 == process_loop(entity, st, um, mt, "ForLoop")
           IN  WithGraph(st1, add_edge(st1.g, parent_idx, NewIdx(st.g), "Contains"))
      [] entity.kind = "WhileStmt" ->
           LET st1 == process_loop(entity, st, um, mt, "WhileLoop")
           IN  WithGraph(st1, add_edge(st1.g, parent_idx, NewIdx(st.g), "Contains"))
      [] entity.kind = "MemberRefExpr" ->
           process_member_access(entity, parent_idx, st)
      [] entity.kind = "ArraySubscriptExpr" ->
           process_array_access(entity, parent_idx, st)
      [] entity.kind = "DeclRefExpr" ->
           WithGraph(st, RefEdge(st.g, st.nm, entity, parent_idx, "Uses"))
      [] OTHER ->
           ProcessStatements(entity.children, 1, parent_idx, st, um, mt)

\* process_binary_operator going through the right-hand side of an assignment
\* whose target it has not found
process_binary_operator_Eager(entity, parent_idx, st) ==
    IF entity.display = "="
    THEN IF Len(entity.children) >= 2
         THEN LET target_idx == AssignmentTarget(entity.children[1], st.nm)
                  assign_idx == NewIdx(st.g)
                  g1 == add_node(st.g, Label("Assignment", ""), "Assignment", "assignment")
                  g2 == add_edge(g1, parent_idx, assign_idx, "Contains")
                  g3 == add_edge(g2, assign_idx, target_idx, "Assigns")
              IN  IF target_idx # 0
                  THEN process_assignment_value(entity.children[2], assign_idx,
                                                target_idx, WithGraph(st, g3))
                  ELSE process_statement(entity.children[2], parent_idx, st,
                                         EmptyMap, FALSE)
         ELSE st
    ELSE ProcessStatements(entity.children, 1, parent_idx, st, EmptyMap, FALSE)

process_binary_operator(entity, parent_idx, st) ==
    IF entity.display = "="
    THEN IF Len(entity.children) >= 2
         THEN LET target_idx == AssignmentTarget(entity.children[1], st.nm)
                  assign_idx == NewIdx(st.g)
                  g1 == add_node(st.g, Label("Assignment", ""), "Assignment", "assignment")
                  g2 == add_edge(g1, parent_idx, assign_idx, "Contains")
                  g3 == add_edge(g2, assign_idx, target_idx, "Assigns")
              IN  IF target_idx # 0
                  THEN process_assignment_value(entity.children[2], assign_idx,
                                                target_idx, WithGraph(st, g3))
                  ELSE st
         ELSE st
    ELSE ProcessStatements(entity.children, 1, parent_idx, st, EmptyMap, FALSE)

process_assignment_value(entity, assign_idx, target_idx, st) ==
    CASE entity.kind = "CallExpr" ->
           process_call_expression(entity, assign_idx,
               WithGraph(st, AssignmentAllocation(entity, assign_idx, target_idx, st.g)),
               EmptyMap, FALSE)
      [] entity.kind = "DeclRefExpr" ->
           IF entity.name # None /\ contains_key(st.nm, entity.name)
           THEN AssignmentAlias(st, assign_idx, target_idx, st.nm[entity.name])
           ELSE st
      [] entity.kind = "UnaryOperator" ->
           IF entity.display = "&"
           THEN AddressOfTargets(entity.children, 1, target_idx, st)
           ELSE st
      [] OTHER ->
           AssignmentValueChildren(entity.children, 1, assign_idx, target_idx, st)

AssignmentValueChildren(children, i, assign_idx, target_idx, st) ==
    IF i > Len(children) THEN st
    ELSE LET child == children[i]
             st1 == IF child.kind = "DeclRefExpr"
                    THEN WithGraph(st, RefEdge(st.g, st.nm, child, assign_idx, "Uses"))
                    ELSE process_assignment_value(child, assign_idx, target_idx, st)
         IN  AssignmentValueChildren(children, i + 1, assign_idx, target_idx, st1)

process_unary_operator(entity, parent_idx, st) ==
    CASE entity.display = "*" ->
           LET deref_idx == NewIdx(st.g)
               g1 == add_edge(add_node(st.g, Label("Dereference", ""), "Dereference",
                                       "dereference"),
                              parent_idx, deref_idx, "Contains")
           IN  DereferenceChildren(entity.children, 1, deref_idx, WithGraph(st, g1))
      [] entity.display = "&" ->
           LET addr_idx == NewIdx(st.g)
               g1 == add_edge(add_node(st.g, Label("AddressOf", ""), "AddressOf",
                                       "address_of"),
                              parent_idx, addr_idx, "Contains")
           IN  AddressOfChildren(entity.children, 1, addr_idx, WithGraph(st, g1))
      [] OTHER ->
           ProcessStatements(entity.children, 1, parent_idx, st, EmptyMap, FALSE)

DereferenceChildren(children, i, deref_idx, st) ==
    IF i > Len(children) THEN st
    ELSE LET child == children[i]
             st1 == IF child.kind = "DeclRefExpr"
                    THEN WithGraph(st, DereferenceRef(st.g, st.nm, st.pt, child, deref_idx))
                    ELSE process_statement(child, deref_idx, st, EmptyMap, FALSE)
         IN  DereferenceChildren(children, i + 1, deref_idx, st1)

AddressOfChildren(children, i, addr_idx, st) ==
    IF i > Len(children) THEN st
    ELSE LET child == children[i]
             st1 == IF child.kind = "DeclRefExpr"
                    THEN WithGraph(st, RefEdge(st.g, st.nm, child, addr_idx, "Uses"))
                    ELSE process_statement(child, addr_idx, st, EmptyMap, FALSE)
         IN  AddressOfChildren(children, i + 1, addr_idx, st1)

process_member_access(entity, parent_idx, st) ==
    LET member_name == IF entity.name # None THEN entity.name ELSE "unknown_member"
        access_idx == NewIdx(st.g)
        g1 == add_edge(add_node(st.g, Label("StructAccess: ", member_name),
                                "StructAccess", "member_access"),
                       parent_idx, access_idx, "Contains")
    IN  MemberAccessChildren(entity.children, 1, access_idx, WithGraph(st, g1))

MemberAccessChildren(children, i, access_idx, st) ==
    IF i > Len(children) THEN st
    ELSE LET child == children[i]
             st1 == IF child.kind = "DeclRefExpr"
                    THEN WithGraph(st, RefEdge(st.g, st.nm, child, access_idx, "Accesses"))
                    ELSE process_statement(child, access_idx, st, EmptyMap, FALSE)
         IN  MemberAccessChildren(children, i + 1, access_idx, st1)

process_array_access(entity, parent_idx, st) ==
    LET access_idx == NewIdx(st.g)
        g1 == add_edge(add_node(st.g, Label("ArrayAccess", ""), "ArrayAccess",
                                "array_access"),
                       parent_idx, access_idx, "Contains")
        st1 == WithGraph(st, g1)
        st2 == IF Len(entity.children) >= 1
               THEN IF entity.children[1].kind = "DeclRefExpr"
                    THEN WithGraph(st1, RefEdge(g1, st.nm, entity.children[1],
                                                access_idx, "Accesses"))
                    ELSE process_statement(entity.children[1], access_idx, st1,
                                           EmptyMap, FALSE)
               ELSE st1
    IN  IF Len(entity.children) >= 2
        THEN WithGraph(st2, find_variable_refs(entity.children[2], access_idx,
                                               st2.g, st2.nm, "Uses"))
        ELSE st2

process_if_statement(entity, st, um, mt) ==
    LET if_idx == NewIdx(st.g)
        g1 == add_node(st.g, Label("If statement", ""), "IfStatement", "if")
        g2 == IfConditionUses(entity, if_idx, g1, st.nm)
        then_branch == FindKind(entity.children, 1, {"CompoundStmt"})
        st1 == IF then_branch # 0
               THEN ProcessStatements(entity.children[then_branch].children, 1,
                                      NewIdx(g2),
                                      WithGraph(st, AddBlock(g2, if_idx, "then")), um, mt)
               ELSE WithGraph(st, g2)
    IN  IF Len(entity.children) >= 3 /\ entity.children[3].kind = "CompoundStmt"
        THEN ProcessStatements(entity.children[3].children, 1, NewIdx(st1.g),
                               WithGraph(st1, AddBlock(st1.g, if_idx, "else")), um, mt)
        ELSE st1

process_loop(entity, st, um, mt, loop_type) ==
    LET loop_idx == NewIdx(st.g)
        loop_name == IF loop_type = "ForLoop" THEN "For loop"
                     ELSE IF loop_type = "WhileLoop" THEN "While loop" ELSE "Loop"
        g1 == add_node(st.g, Label(loop_name, ""), loop_type, "loop")
        g2 == LoopConditionUses(entity.children, 1, loop_idx, g1, st.nm)
        body == FindKind(entity.children, 1, {"CompoundStmt"})
    IN  IF body # 0
        THEN ProcessStatements(entity.children[body].children, 1, NewIdx(g2),
                               WithGraph(st, AddBlock(g2, loop_idx, "loop body")), um, mt)
        ELSE WithGraph(st, g2)

(***************************************************************************)
(* Function definitions (processors.rs) and the two AST traversals         *)
(* (graph_builder.rs).                                                     *)
(***************************************************************************)
\* the display name of the result type, "void" when the entity has no type
return_type(entity) == IF entity.type = None THEN "void" ELSE entity.type

FunctionNodeType(name) == IF name = "main" THEN "Main" ELSE "Function"

\* a new Function/Main node, registered by name and by USR
RegisterFunction(entity, st) ==
    LET node_idx == NewIdx(st.g)
    IN  [st EXCEPT
            !.g = add_typed_node(st.g, Label("", entity.name),
                                 FunctionNodeType(entity.name), "function",
                                 return_type(entity)),
            !.nm = insert(st.nm, entity.name, node_idx),
            !.um = IF entity.usr # "" THEN insert(st.um, entity.usr, node_idx) ELSE st.um]

ParamNodeType(t) ==
    IF TypeContainsCharStar(t) THEN "BufferParameter"
    ELSE IF TypeContainsStar(t) THEN "Pointer"
    ELSE "Parameter"

ParamLabel(name, t) ==
    IF TypeContainsCharStar(t) THEN Label("BufferParam: ", name \o " (" \o t \o ")")
    ELSE IF TypeContainsStar(t) THEN Label("Pointer: ", name \o " (" \o t \o ")")
    ELSE Label("Param: ", name \o " (" \o t \o ")")

\* one parameter: its node under the function, registered under the composite
\* key and under its bare name
ProcessParameter(func_name, node_idx, param, st) ==
    IF param.name = None THEN st
    ELSE LET param_idx == NewIdx(st.g)
             g1 == add_typed_node(st.g, ParamLabel(param.name, param.type),
                                  ParamNodeType(param.type), "parameter", param.type)
         IN  [st EXCEPT
                !.g = add_edge(g1, node_idx, param_idx, "Contains"),
                !.nm = insert(insert(st.nm, func_name \o "_" \o param.name, param_idx),
                              param.name, param_idx)]

RECURSIVE ProcessParameters(_, _, _, _, _)
ProcessParameters(params, i, func_name, node_idx, st) ==
    IF i > Len(params) THEN st
    ELSE ProcessParameters(params, i + 1, func_name, node_idx,
                           ProcessParameter(func_name, node_idx, params[i], st))

\* the node the function's parameters and entry block are attached to
FunctionNode(name, nm, g) == IF contains_key(nm, name) THEN nm[name] ELSE NewIdx(g)

process_function(entity, st, mt) ==
    IF entity.name = None THEN st
    ELSE LET node_idx == FunctionNode(entity.name, st.nm, st.g)
             st1 == IF contains_key(st.nm, entity.name) THEN st
                    ELSE RegisterFunction(entity, st)
             st2 == ProcessParameters(entity.args, 1, entity.name, node_idx, st1)
             body == FindKind(entity.children, 1, {"CompoundStmt"})
         IN  IF body # 0
             THEN ProcessStatements(entity.children[body].children, 1, NewIdx(st2.g),
                                    WithGraph(st2, AddBlock(st2.g, node_idx, "entry")),
                                    st2.um, mt)
             ELSE st2

RECURSIVE find_all_functions(_, _)
RECURSIVE FindFunctionsInChildren(_, _, _)
\* find_all_functions registering every declaration it meets
find_all_functions_Overwriting(entity, st) ==
    IF is_system_entity(entity) THEN st
    ELSE IF entity.kind = "FunctionDecl"
         THEN IF entity.name # None
              THEN RegisterFunction(entity, st)
              ELSE st
         ELSE FindFunctionsInChildren(entity.children, 1, st)

find_all_functions(entity, st) ==
    IF is_system_entity(entity) THEN st
    ELSE IF entity.kind = "FunctionDecl"
         THEN IF entity.name # None /\ ~contains_key(st.nm, entity.name)
              THEN RegisterFunction(entity, st)
              ELSE st
         ELSE FindFunctionsInChildren(entity.children, 1, st)

FindFunctionsInChildren(children, i, st) ==
    IF i > Len(children) THEN st
    ELSE FindFunctionsInChildren(children, i + 1, find_all_functions(children[i], st))

RECURSIVE analyze_program(_, _, _)
RECURSIVE AnalyzeChildren(_, _, _, _)
analyze_program(entity, st, mt) ==
    IF is_system_entity(entity) \/ get_entity_id(entity) \in st.pr THEN st
    ELSE LET st1 == [st EXCEPT !.pr = @ \cup {get_entity_id(entity)}]
         IN  CASE entity.kind = "FunctionDecl" -> process_function(entity, st1, mt)
               [] entity.kind = "VarDecl" -> process_variable_decl(entity, st1)
               [] entity.kind = "IfStmt" -> process_if_statement(entity, st1, st1.um, mt)
               [] entity.kind = "ForStmt" -> process_loop(entity, st1, st1.um, mt, "ForLoop")
               [] entity.kind = "WhileStmt" ->
                    process_loop(entity, st1, st1.um, mt, "WhileLoop")
               [] OTHER -> AnalyzeChildren(entity.children, 1, st1, mt)

AnalyzeChildren(children, i, st, mt) ==
    IF i > Len(children) THEN st
    ELSE AnalyzeChildren(children, i + 1, analyze_program(children[i], st, mt), mt)

(***************************************************************************)
(* Reconciliation: fix_disconnected_calls (graph_builder.rs).              *)
(***************************************************************************)
\* the function name a call node's label carries, None when it has neither prefix
CalleeOfLabel(name) ==
    IF name[1] = "Call: " THEN name[2]
    ELSE IF name[1] = "Unsafe: " THEN name[2]
    ELSE None

HasEdge(g, src, dst, kind) ==
    \E i \in 1..Len(g.edges) :
        g.edges[i].src = src /\ g.edges[i].dst = dst /\ g.edges[i].kind = kind

HasOutEdge(g, src, kind) ==
    \E i \in 1..Len(g.edges) : g.edges[i].src = src /\ g.edges[i].kind = kind

\* sub-phase 1: the Calls edges to add for call nodes that have none
RECURSIVE PendingEdges(_, _, _)
\* PendingEdges without the test for a Calls edge the node already has
PendingEdges_Unchecked(g, nm, node_idx) ==
    IF node_idx > Len(g.nodes) THEN <<>>
    ELSE LET node == g.nodes[node_idx]
             function_name == CalleeOfLabel(node.name)
             found == IF node.kind \in {"Call", "UnsafeCall"}
                         /\ function_name # None
                         /\ contains_key(nm, function_name)
                      THEN <<<<node_idx, nm[function_name]>>>>
                      ELSE <<>>
         IN  found \o PendingEdges(g, nm, node_idx + 1)

PendingEdges(g, nm, node_idx) ==
    IF node_idx > Len(g.nodes) THEN <<>>
    ELSE LET node == g.nodes[node_idx]
             function_name == CalleeOfLabel(node.name)
             found == IF node.kind \in {"Call", "UnsafeCall"}
                         /\ function_name # None
                         /\ ~HasOutEdge(g, node_idx, "Calls")
                         /\ contains_key(nm, function_name)
                      THEN <<<<node_idx, nm[function_name]>>>>
                      ELSE <<>>
         IN  found \o PendingEdges(g, nm, node_idx + 1)

\* the BasicBlock children of a node, in graph.edges() order
RECURSIVE BlocksIn(_, _, _)
BlocksIn(g, out, i) ==
    IF i > Len(out) THEN <<>>
    ELSE IF out[i].kind = "Contains" /\ g.nodes[out[i].dst].kind = "BasicBlock"
         THEN <<out[i].dst>> \o BlocksIn(g, out, i + 1)
         ELSE BlocksIn(g, out, i + 1)

basic_blocks(g, node_idx) == BlocksIn(g, edges(g, node_idx), 1)

RECURSIVE InsertAll(_, _, _, _)
InsertAll(m, key, values, i) ==
    IF i > Len(values) THEN m
    ELSE InsertAll(insert(m, key, values[i]), key, values, i + 1)

\* function name -> basic block of that function
RECURSIVE CallerToNode(_, _, _)
CallerToNode(g, node_idx, m) ==
    IF node_idx > Len(g.nodes) THEN m
    ELSE LET node == g.nodes[node_idx]
         IN  CallerToNode(g, node_idx + 1,
                IF node.kind \in {"Function", "Main"}
                THEN InsertAll(m, node.name[2], basic_blocks(g, node_idx), 1)
                ELSE m)

\* whether the caller's block already holds a call node for callee connected to func_idx
\* has_call finding no call ever
HasCall_Never(g, caller_block, callee, func_idx) == FALSE

HasCall(g, caller_block, callee, func_idx) ==
    \E i \in 1..Len(g.edges) :
        /\ g.edges[i].src = caller_block
        /\ g.edges[i].kind = "Contains"
        /\ g.nodes[g.edges[i].dst].kind \in {"Call", "UnsafeCall"}
        /\ g.nodes[g.edges[i].dst].name \in
              {Label("Call: ", callee), Label("Unsafe: ", callee)}
        /\ HasEdge(g, g.edges[i].dst, func_idx, "Calls")

\* InjectCall adding the call node also when the caller has no entry block
InjectCall_Dangling(g, nm, caller_to_node, caller, callee) ==
    IF is_standard_library_function(callee) THEN g
    ELSE IF contains_key(nm, callee)
         THEN LET func_idx == nm[callee]
                  call_idx == NewIdx(g)
                  g1 == add_node(g,
                           IF is_unsafe_function(callee) THEN Label("Unsafe: ", callee)
                           ELSE Label("Call: ", callee),
                           IF is_unsafe_function(callee) THEN "UnsafeCall" ELSE "Call",
                           "scanner")
              IN  IF ~contains_key(caller_to_node, caller)
                  THEN add_edge(g1, call_idx, func_idx, "Calls")
                  ELSE IF ~HasCall(g, caller_to_node[caller], callee, func_idx)
                       THEN add_edge(add_edge(g1, caller_to_node[caller], call_idx,
                                              "Contains"),
                                     call_idx, func_idx, "Calls")
                       ELSE g
         ELSE g

\* sub-phase 2, one extracted (caller, callee) pair
InjectCall(g, nm, caller_to_node, caller, callee) ==
    IF is_standard_library_function(callee) THEN g
    ELSE IF contains_key(nm, callee) /\ contains_key(caller_to_node, caller)
         THEN LET func_idx == nm[callee]
                  caller_block == caller_to_node[caller]
                  call_idx == NewIdx(g)
                  g1 == add_node(g,
                           IF is_unsafe_function(callee) THEN Label("Unsafe: ", callee)
                           ELSE Label("Call: ", callee),
                           IF is_unsafe_function(callee) THEN "UnsafeCall" ELSE "Call",
                           "scanner")
              IN  IF ~HasCall(g, caller_block, callee, func_idx)
                  THEN add_edge(add_edge(g1, caller_block, call_idx, "Contains"),
                                call_idx, func_idx, "Calls")
                  ELSE g
         ELSE g

RECURSIVE InjectCalls(_, _, _, _, _)
InjectCalls(g, nm, caller_to_node, extracted_calls, i) ==
    IF i > Len(extracted_calls) THEN g
    ELSE InjectCalls(InjectCall(g, nm, caller_to_node,
                                extracted_calls[i][1], extracted_calls[i][2]),
                     nm, caller_to_node, extracted_calls, i + 1)

\* whether a "Call: pthread_create" child of a block of the caller references the handler
PthreadConnected(g, caller_idx, handler_idx) ==
    \E i, j \in 1..Len(g.edges) :
        /\ g.edges[i].src = caller_idx
        /\ g.edges[i].kind = "Contains"
        /\ g.nodes[g.edges[i].dst].kind = "BasicBlock"
        /\ g.edges[j].src = g.edges[i].dst
        /\ g.edges[j].kind = "Contains"
        /\ g.nodes[g.edges[j].dst].name = Label("Call: ", "pthread_create")
        /\ HasEdge(g, g.edges[j].dst, handler_idx, "References")

\* sub-phase 3, one (caller, handler) pair
InjectPthread(g, nm, caller, handler_func) ==
    IF contains_key(nm, caller) /\ contains_key(nm, handler_func)
    THEN LET caller_idx == nm[caller]
             handler_idx == nm[handler_func]
             blocks == basic_blocks(g, caller_idx)
             pthread_idx == NewIdx(g)
         IN  IF ~PthreadConnected(g, caller_idx, handler_idx) /\ Len(blocks) > 0
             THEN add_edge(add_edge(add_node(g, Label("Call: ", "pthread_create"),
                                             "Call", "pthread"),
                                    blocks[1], pthread_idx, "Contains"),
                           pthread_idx, handler_idx, "References")
             ELSE g
    ELSE g

RECURSIVE InjectPthreads(_, _, _, _)
InjectPthreads(g, nm, assignments, i) ==
    IF i > Len(assignments) THEN g
    ELSE InjectPthreads(InjectPthread(g, nm, assignments[i][1], assignments[i][2]),
                        nm, assignments, i + 1)

RECURSIVE AddCallsEdges(_, _, _)
\* AddCallsEdges putting each edge in front of the edges the graph has
AddCallsEdges_Prepending(g, new_edges, i) ==
    IF i > Len(new_edges) THEN g
    ELSE AddCallsEdges([g EXCEPT !.edges =
                           <<[src |-> new_edges[i][1], dst |-> new_edges[i][2],
                              kind |-> "Calls"]>> \o @],
                       new_edges, i + 1)

AddCallsEdges(g, new_edges, i) ==
    IF i > Len(new_edges) THEN g
    ELSE AddCallsEdges(add_edge(g, new_edges[i][1], new_edges[i][2], "Calls"),
                       new_edges, i + 1)

fix_disconnected_calls(g, nm, extracted_calls, assignments) ==
    LET new_edges == PendingEdges(g, nm, 1)
        caller_to_node == CallerToNode(g, 1, EmptyMap)
        g1 == InjectCalls(g, nm, caller_to_node, extracted_calls, 1)
        g2 == InjectPthreads(g1, nm, assignments, 1)
    IN  AddCallsEdges(g2, new_edges, 1)

(***************************************************************************)
(* The source scanner (utils.rs) reads the text of the translation unit    *)
(* the front-end parsed.  Its lists are modelled by what the text of the   *)
(* bodies holds: a (definer, callee) pair for a call written in the body   *)
(* of a function definition, unless the callee is filtered, and a          *)
(* (definer, handler) pair for a pthread_create call whose third argument  *)
(* names a function defined in the text.                                   *)
(***************************************************************************)
\* the callee a call expression names in the text
WrittenCallee(entity) ==
    IF entity.ref.some THEN entity.ref.name ELSE extract_function_name_from_call(entity)

RECURSIVE CallsWritten(_)
CallsWritten(entity) ==
    (IF entity.kind = "CallExpr" /\ WrittenCallee(entity) # None
     THEN {WrittenCallee(entity)} ELSE {})
    \cup UNION {CallsWritten(entity.children[i]) : i \in 1..Len(entity.children)}

RECURSIVE HandlersWritten(_)
HandlersWritten(entity) ==
    (IF entity.kind = "CallExpr" /\ WrittenCallee(entity) = "pthread_create"
        /\ Len(entity.args) >= 3 /\ entity.args[3].name # None
     THEN {entity.args[3].name} ELSE {})
    \cup UNION {HandlersWritten(entity.children[i]) : i \in 1..Len(entity.children)}

HasBody(decl) == FindKind(decl.children, 1, {"CompoundStmt"}) # 0

\* func_names: the function definitions the scanner's regex recognises
Definitions(root) ==
    {root.children[i] : i \in {j \in 1..Len(root.children) :
        root.children[j].kind = "FunctionDecl" /\ HasBody(root.children[j])
        /\ ~root.children[j].sys}}

extract_function_calls_from_source(root) ==
    UNION {{<<d.name, callee>> : callee \in
              {c \in CallsWritten(d) :
                  ~is_standard_library_function(c)
                  /\ c \notin {"if", "for", "while", "switch", "return"}}} :
           d \in Definitions(root)}

extract_pthread_assignments(root) ==
    UNION {{<<d.name, h>> : h \in
              {x \in HandlersWritten(d) : x \in {e.name : e \in Definitions(root)}}} :
           d \in Definitions(root)}

\* the lists of at most n elements of S
ListsUpTo(S, n) == UNION {[1..k -> S] : k \in 0..n}

(***************************************************************************)
(* Bounded inputs: translation units.  Each family fixes the declarations  *)
(* around one function run(c, p, b) and the statements its body is drawn   *)
(* from; the body is any list of at most MaxStmts of them.                 *)
(***************************************************************************)
Arg(name) == Unexposed(name, <<DeclRef(name)>>)

F == Ref("f", FuncUsr("f"))

\* f();
CallF == Call(F, <<>>)

\* if (c > 0) { f(); }
IfCallF == IfStmt(<<Binary(">", Arg("c"), IntLit), Compound(<<CallF>>)>>)

\* while (c) { f(); }
WhileCallF == WhileStmt(<<Arg("c"), Compound(<<CallF>>)>>)

\* if (c > 0) { f(); } else { f(); }
IfElseCallF ==
    IfStmt(<<Binary(">", Arg("c"), IntLit), Compound(<<CallF>>), Compound(<<CallF>>)>>)

\* if (c > 0) { f(); } else if (c > 0) { f(); }
ElseIfCallF ==
    IfStmt(<<Binary(">", Arg("c"), IntLit), Compound(<<CallF>>), IfCallF>>)

\* c = f();
AssignCallF == Binary("=", DeclRef("c"), CallF)

\* *p = f();
AssignDerefPCallF == Binary("=", Unary("*", Arg("p")), CallF)

\* z = f(); z being declared in a system header
AssignGlobalCallF == Binary("=", DeclRef("z"), CallF)

\* *f();
DerefCallF == Unary("*", CallF)

\* f().m;
MemberCallF == MemberRef("m", CallF)

\* f()[c];
SubscriptCallF == ArraySubscript(CallF, Arg("c"))

\* &f();
AddrCallF == Unary("&", CallF)

\* f(p);
CallFOfP == Call(F, <<Arg("p")>>)

\* gets(b);
CallGets == Call(Ref("gets", FuncUsr("gets")), <<Arg("b")>>)

\* strcpy(b, b);
CallStrcpy == Call(Ref("strcpy", FuncUsr("strcpy")), <<Arg("b"), Arg("b")>>)

\* if (c > 0) { gets(b); }
IfCallGets == IfStmt(<<Binary(">", Arg("c"), IntLit), Compound(<<CallGets>>)>>)

\* h();  h is declared in a system header only
CallH == Call(Ref("h", FuncUsr("h")), <<>>)

\* utility();  not bound by the front-end
CallUnbound == UnboundCall("h", <<>>)

\* f();  where f is the parameter of the enclosing function
CallParamF == Call(Ref("f", VarUsr("f")), <<>>)

Malloc == Call(Ref("malloc", FuncUsr("malloc")), <<IntLit>>)

\* void *q = malloc(4);
DeclQMalloc == DeclStmt(<<VarDecl("q", "void *", <<Malloc>>)>>)

\* p = malloc(4);
AssignPMalloc == Binary("=", DeclRef("p"), Malloc)

\* c = malloc(4);  c is a parameter whose type is a typedef name
AssignCMalloc == Binary("=", DeclRef("c"), Malloc)

\* free(p);
FreeP == Call(Ref("free", FuncUsr("free")), <<DeclRef("p")>>)

\* int *q = &c;
DeclQAddrC == DeclStmt(<<VarDecl("q", "int *", <<Unary("&", DeclRef("c"))>>)>>)

\* p = &c;
AssignPAddrC == Binary("=", DeclRef("p"), Unary("&", DeclRef("c")))

\* p = b;
AssignPAliasB == Binary("=", DeclRef("p"), DeclRef("b"))

\* int *r = p;
DeclRAliasP == DeclStmt(<<VarDecl("r", "int *", <<DeclRef("p")>>)>>)

\* *p;
DerefP == Unary("*", DeclRef("p"))

\* *p; the pointer being read through the conversion to its value
DerefLoadP == Unary("*", Arg("p"))

\* pthread_create(&t, 0, f, 0);
CallPthread ==
    Call(Ref("pthread_create", FuncUsr("pthread_create")),
         <<Unary("&", DeclRef("t")), IntLit, Arg("f"), IntLit>>)

\* if (c > 0) { pthread_create(&t, 0, f, 0); }
IfCallPthread == IfStmt(<<Binary(">", Arg("c"), IntLit), Compound(<<CallPthread>>)>>)

\* g();
CallG == Call(Ref("g", FuncUsr("g")), <<>>)

\* void g(void) { }
DefG == FunctionDecl("g", <<>>, <<Compound(<<>>)>>)

\* if (c > 0) f(); else { g(); }
IfCallFElseCallG ==
    IfStmt(<<Binary(">", Arg("c"), IntLit), CallF, Compound(<<CallG>>)>>)

\* void f(void) { g(); }
DefFCallsG == FunctionDecl("f", <<>>, <<Compound(<<CallG>>)>>)

StdParams == <<ParmDecl("c", "int"), ParmDecl("p", "int *"), ParmDecl("b", "char *")>>

MemParams == <<ParmDecl("c", "handle_t"), ParmDecl("p", "void *"), ParmDecl("b", "char *")>>

\* void f(void) { }
DefF == FunctionDecl("f", <<>>, <<Compound(<<>>)>>)

\* void f(void);
ProtoF == FunctionDecl("f", <<>>, <<>>)

\* a declaration of a system header
System(decl) == [decl EXCEPT !.sys = TRUE]

Family(pre, params, stmts, post) ==
    [pre |-> pre, params |-> params, stmts |-> stmts, post |-> post]

Families ==
    { \* calls of a function defined before the caller
      Family(<<DefF>>, StdParams,
             {CallF, IfCallF, WhileCallF, AssignCallF, CallFOfP}, <<>>),
      \* calls inside the operand of an operator
      Family(<<DefF>>, StdParams,
             {DerefCallF, MemberCallF, SubscriptCallF, AddrCallF}, <<>>),
      \* calls of unsafe functions, gets being defined in the translation unit
      Family(<<FunctionDecl("gets", <<ParmDecl("s", "char *")>>, <<Compound(<<>>)>>)>>,
             StdParams, {CallGets, CallStrcpy, IfCallGets}, <<>>),
      \* memory operations
      Family(<<System(FunctionDecl("malloc", <<ParmDecl("n", "int")>>, <<>>))>>,
             MemParams, {DeclQMalloc, AssignPMalloc, AssignCMalloc, FreeP, Malloc}, <<>>),
      \* pointer relations
      Family(<<>>, StdParams,
             {DeclQAddrC, AssignPAddrC, AssignPAliasB, DeclRAliasP, DerefP, DerefLoadP}, <<>>),
      \* a parameter of the caller shares its name with a function
      Family(<<ProtoF>>,
             <<ParmDecl("f", "void (*)(void)"), ParmDecl("c", "int")>>,
             {CallParamF, AssignCallF, CallPthread}, <<DefF>>),
      \* a parameter of a later function shares its name with a called function
      Family(<<System(FunctionDecl("h", <<>>, <<>>))>>, StdParams,
             {CallH, CallUnbound, CallF},
             <<FunctionDecl("k", <<ParmDecl("h", "int"), ParmDecl("f", "int")>>,
                            <<Compound(<<>>)>>),
               DefF>>),
      \* a function declared three times, and main
      Family(<<ProtoF, DefF>>, StdParams, {CallF, CallFOfP},
             <<ProtoF, FunctionDecl("main", <<>>, <<Compound(<<>>)>>)>>),
      \* a function with calls in its body whose name a parameter has taken
      Family(<<ProtoF, DefG>>,
             <<ParmDecl("f", "void (*)(void)"), ParmDecl("c", "int")>>,
             {CallParamF, CallG}, <<DefFCallsG>>),
      \* the caller's name taken by a parameter of a later function, and
      \* pthread_create not declared at all
      Family(<<DefF>>, StdParams, {CallPthread, IfCallF},
             <<FunctionDecl("k", <<ParmDecl("run", "int")>>, <<Compound(<<>>)>>)>>),
      \* pthread_create declared in the translation unit
      Family(<<FunctionDecl("pthread_create", <<>>, <<>>), DefF>>, StdParams,
             {CallPthread, IfCallPthread, CallF, IfCallF}, <<>>),
      \* calls of a function defined after the caller
      Family(<<>>, StdParams, {CallF, IfCallF}, <<DefF>>),
      \* assignments to something else than a local variable or a parameter
      Family(<<DefF>>, StdParams, {AssignDerefPCallF, AssignGlobalCallF, AssignCallF},
             <<>>),
      \* a function with a parameter, declared by a prototype and defined later
      Family(<<DefF, FunctionDecl("k", <<ParmDecl("h", "int")>>, <<>>)>>, StdParams,
             {CallFOfP},
             <<FunctionDecl("k", <<ParmDecl("h", "int")>>, <<Compound(<<>>)>>)>>),
      \* if statements with an else branch
      Family(<<DefF, DefG>>, StdParams,
             {IfElseCallF, ElseIfCallF, IfCallFElseCallG}, <<>>),
      \* pthread_create declared in a system header
      Family(<<System(FunctionDecl("pthread_create", <<>>, <<>>)), DefF>>, StdParams,
             {CallPthread, IfCallPthread}, <<>>) }

\* top-level declaration i is written at line i
RECURSIVE Located(_, _)
Located(decls, i) ==
    IF i > Len(decls) THEN <<>>
    ELSE <<[decls[i] EXCEPT !.loc = i]>> \o Located(decls, i + 1)

TranslationUnit(fam, body) ==
    Ent("TranslationUnit", "input.c",
        Located(fam.pre \o <<FunctionDecl("run", fam.params, <<Compound(body)>>)>>
                \o fam.post, 1))

Programs ==
    UNION {{TranslationUnit(fam, body) : body \in ListsUpTo(fam.stmts, MaxStmts)} :
           fam \in Families}

(***************************************************************************)
(* Serialization (formatters.rs).  The text of an output is modelled by    *)
(* the values the format! calls put into it: one record per node line and  *)
(* per edge line, in the order of graph.node_indices() and                 *)
(* graph.edge_indices().  A node index is written as petgraph's (i - 1).   *)
(***************************************************************************)
NodeKinds ==
    {"Function", "Main", "Parameter", "BufferParameter", "Variable", "Pointer",
     "Array", "Call", "UnsafeCall", "BasicBlock", "IfStatement", "ForLoop",
     "WhileLoop", "Assignment", "MemoryOp", "Dereference", "AddressOf", "Cast",
     "StructAccess", "ArrayAccess"}

EdgeKinds ==
    {"Contains", "Calls", "Controls", "Uses", "References", "Assigns", "Points",
     "Casts", "Accesses", "Allocates", "Frees", "Defines"}

\* (shape, color, style) of a node in DOT
dot_node_style(kind) ==
    CASE kind = "UnsafeCall" -> <<"ellipse", "red", "filled">>
      [] kind = "Call" -> <<"ellipse", "purple", "filled">>
      [] kind = "Main" -> <<"ellipse", "green", "filled">>
      [] kind = "Function" -> <<"ellipse", "lightblue", "filled">>
      [] kind = "BasicBlock" -> <<"box", "red", "filled,rounded">>
      [] kind = "Parameter" -> <<"ellipse", "orange", "filled">>
      [] kind = "BufferParameter" -> <<"ellipse", "blue", "filled">>
      [] kind = "Variable" -> <<"ellipse", "green", "filled">>
      [] kind = "Pointer" -> <<"ellipse", "darkblue", "filled">>
      [] kind = "Array" -> <<"ellipse", "lightyellow", "filled">>
      [] kind = "IfStatement" -> <<"diamond", "indigo", "filled">>
      [] kind = "ForLoop" -> <<"box", "lightblue", "filled,rounded">>
      [] kind = "WhileLoop" -> <<"box", "lightblue", "filled,rounded">>
      [] kind = "Assignment" -> <<"ellipse", "grey", "filled">>
      [] kind = "MemoryOp" -> <<"ellipse", "violet", "filled">>
      [] kind = "Dereference" -> <<"ellipse", "darkred", "filled">>
      [] kind = "AddressOf" -> <<"ellipse", "lightgreen", "filled">>
      [] kind = "Cast" -> <<"ellipse", "cyan", "filled">>
      [] kind = "StructAccess" -> <<"ellipse", "pink", "filled">>
      [] kind = "ArrayAccess" -> <<"ellipse", "yellow", "filled">>

\* the label of an edge in DOT
dot_edge_label(kind) ==
    CASE kind = "Calls" -> "calls"
      [] kind = "Contains" -> "contains"
      [] kind = "Uses" -> "uses"
      [] kind = "Defines" -> "defines"
      [] kind = "References" -> "references"
      [] kind = "Assigns" -> "assigns"
      [] kind = "Points" -> "points_to"
      [] kind = "Casts" -> "casts"
      [] kind = "Accesses" -> "accesses"
      [] kind = "Allocates" -> "allocates"
      [] kind = "Frees" -> "frees"
      [] kind = "Controls" -> "controls"

\* dot_edge_color with the colour of Controls given to Allocates as well
dot_edge_color_Swapped(kind) ==
    CASE kind = "Calls" -> "blue"
      [] kind = "Contains" -> "gray"
      [] kind = "Uses" -> "green"
      [] kind = "Defines" -> "purple"
      [] kind = "References" -> "darkblue"
      [] kind = "Assigns" -> "black"
      [] kind = "Points" -> "darkorange"
      [] kind = "Casts" -> "cyan"
      [] kind = "Accesses" -> "pink"
      [] kind = "Allocates" -> "red"
      [] kind = "Frees" -> "red"
      [] kind = "Controls" -> "red"

\* the colour of an edge in DOT
dot_edge_color(kind) ==
    CASE kind = "Calls" -> "blue"
      [] kind = "Contains" -> "gray"
      [] kind = "Uses" -> "green"
      [] kind = "Defines" -> "purple"
      [] kind = "References" -> "darkblue"
      [] kind = "Assigns" -> "black"
      [] kind = "Points" -> "darkorange"
      [] kind = "Casts" -> "cyan"
      [] kind = "Accesses" -> "pink"
      [] kind = "Allocates" -> "darkgreen"
      [] kind = "Frees" -> "red"
      [] kind = "Controls" -> "red"

\* (label, color, weight) of an edge in JSON
json_edge_style(kind) ==
    CASE kind = "Calls" -> <<"calls", "blue", "2.0">>
      [] kind = "Contains" -> <<"contains", "gray", "1.0">>
      [] kind = "Uses" -> <<"uses", "green", "2.0">>
      [] kind = "References" -> <<"references", "darkblue", "2.0">>
      [] kind = "Assigns" -> <<"assigns", "black", "1.5">>
      [] kind = "Points" -> <<"points_to", "darkorange", "2.0">>
      [] kind = "Casts" -> <<"casts", "cyan", "1.5">>
      [] kind = "Accesses" -> <<"accesses", "pink", "1.5">>
      [] kind = "Allocates" -> <<"allocates", "darkgreen", "2.0">>
      [] kind = "Frees" -> <<"frees", "red", "2.0">>
      [] kind = "Controls" -> <<"controls", "red", "3.0">>
      [] kind = "Defines" -> <<"defines", "purple", "2.0">>

\* the group of a node in JSON
json_node_group(kind) ==
    CASE kind = "Function" -> "function"
      [] kind = "Main" -> "main_function"
      [] kind = "Variable" -> "variable"
      [] kind = "Parameter" -> "param"
      [] kind = "BufferParameter" -> "buffer_param"
      [] kind = "Pointer" -> "pointer"
      [] kind = "Array" -> "array"
      [] kind = "Call" -> "call"
      [] kind = "UnsafeCall" -> "unsafe_call"
      [] kind = "BasicBlock" -> "basic"
      [] kind = "IfStatement" -> "if_statement"
      [] kind = "ForLoop" -> "for_loop"
      [] kind = "WhileLoop" -> "while_loop"
      [] kind = "Assignment" -> "assignment"
      [] kind = "MemoryOp" -> "memory_op"
      [] kind = "Dereference" -> "dereference"
      [] kind = "AddressOf" -> "address_of"
      [] kind = "Cast" -> "cast"
      [] kind = "StructAccess" -> "struct_access"
      [] kind = "ArrayAccess" -> "array_access"

node_type_to_prefix(kind) ==
    CASE kind = "Function" -> "func"
      [] kind = "Main" -> "main"
      [] kind = "Variable" -> "var"
      [] kind = "Parameter" -> "param"
      [] kind = "BufferParameter" -> "buffer"
      [] kind = "Pointer" -> "ptr"
      [] kind = "Array" -> "array"
      [] kind = "Call" -> "call"
      [] kind = "UnsafeCall" -> "unsafe"
      [] kind = "BasicBlock" -> "block"
      [] kind = "IfStatement" -> "if"
      [] kind = "ForLoop" -> "for"
      [] kind = "WhileLoop" -> "while"
      [] kind = "Assignment" -> "assign"
      [] kind = "MemoryOp" -> "memop"
      [] kind = "Dereference" -> "deref"
      [] kind = "AddressOf" -> "addrof"
      [] kind = "Cast" -> "cast"
      [] kind = "StructAccess" -> "struct"
      [] kind = "ArrayAccess" -> "arr_acc"

\* the label of a node: its name, followed by its type information when it has any
node_label(node) ==
    node.name[1] \o node.name[2]
    \o (IF node.type_info # None THEN " [" \o node.type_info \o "]" ELSE "")

\* the id of a node in JSON: format!("{}_{}", prefix, index)
json_node_id(g, idx) == <<node_type_to_prefix(g.nodes[idx].kind), "_", idx - 1>>

format_graph_as_dot(g) ==
    [syntax |-> "digraph",
     nodes |-> [i \in 1..Len(g.nodes) |->
                   [id |-> i - 1,
                    label |-> node_label(g.nodes[i]),
                    shape |-> dot_node_style(g.nodes[i].kind)[1],
                    fillcolor |-> dot_node_style(g.nodes[i].kind)[2],
                    style |-> dot_node_style(g.nodes[i].kind)[3]]],
     edges |-> [i \in 1..Len(g.edges) |->
                   [source |-> g.edges[i].src - 1,
                    target |-> g.edges[i].dst - 1,
                    label |-> dot_edge_label(g.edges[i].kind),
                    color |-> dot_edge_color(g.edges[i].kind)]]]

format_graph_as_json(g) ==
    [syntax |-> "json",
     nodes |-> [i \in 1..Len(g.nodes) |->
                   [id |-> json_node_id(g, i),
                    label |-> node_label(g.nodes[i]),
                    group |-> json_node_group(g.nodes[i].kind)]],
     edges |-> [i \in 1..Len(g.edges) |->
                   [from |-> json_node_id(g, g.edges[i].src),
                    to |-> json_node_id(g, g.edges[i].dst),
                    label |-> json_edge_style(g.edges[i].kind)[1],
                    weight |-> json_edge_style(g.edges[i].kind)[3],
                    color |-> json_edge_style(g.edges[i].kind)[2],
                    dashes |-> FALSE]]]

\* no output has been generated yet
NoOutput == [syntax |-> "none", nodes |-> <<>>, edges |-> <<>>]

(***************************************************************************)
(* The source scanner on the text.  The text is a sequence of lines, each   *)
(* of one of four forms: the head of a function definition up to its        *)
(* opening brace ("void f(void) {"), an opening brace, a closing brace, or  *)
(* an identifier followed by a parenthesis ("g(c);", "if (c)").             *)
(***************************************************************************)
Line(kind, name) == [kind |-> kind, name |-> name]

Lines ==
    {Line("head", "f"), Line("head", "g"), Line("open", ""), Line("close", ""),
     Line("call", "g"), Line("call", "strlen"), Line("call", "if")}

\* func_names: the names func_regex captures, in the order of the text
RECURSIVE func_names(_, _)
func_names(text, i) ==
    IF i > Len(text) THEN <<>>
    ELSE (IF text[i].kind = "head" THEN <<text[i].name>> ELSE <<>>)
             \o func_names(text, i + 1)

\* func_body_regex.find: the end of the first head of the function
RECURSIVE FindHead(_, _, _)
FindHead(text, func_name, i) ==
    IF i > Len(text) THEN 0
    ELSE IF text[i] = Line("head", func_name) THEN i
    ELSE FindHead(text, func_name, i + 1)

\* the line of the closing brace that brings depth to 0, or 0 if there is none
RECURSIVE MatchingBrace(_, _, _)
MatchingBrace(text, i, depth) ==
    IF i > Len(text) THEN 0
    ELSE IF text[i].kind \in {"open", "head"} THEN MatchingBrace(text, i + 1, depth + 1)
    ELSE IF text[i].kind = "close"
         THEN IF depth = 1 THEN i ELSE MatchingBrace(text, i + 1, depth - 1)
    ELSE MatchingBrace(text, i + 1, depth)

\* the body that starts after the head in line start_pos; empty if end_pos
\* stays at start_pos
Body(text, start_pos) ==
    LET end_pos == MatchingBrace(text, start_pos + 1, 1)
    IN  IF end_pos = 0 THEN <<>> ELSE SubSeq(text, start_pos + 1, end_pos - 1)

\* the pairs call_regex yields in a body
RECURSIVE BodyCalls(_, _, _)
BodyCalls(func_name, body, i) ==
    IF i > Len(body) THEN <<>>
    ELSE (IF /\ body[i].kind \in {"call", "head"}
             /\ ~is_standard_library_function(body[i].name)
             /\ body[i].name \notin {"if", "for", "while", "switch", "return"}
          THEN <<<<func_name, body[i].name>>>> ELSE <<>>)
             \o BodyCalls(func_name, body, i + 1)

RECURSIVE CallsOfFunctions(_, _, _)
CallsOfFunctions(text, names, i) ==
    IF i > Len(names) THEN <<>>
    ELSE LET start_pos == FindHead(text, names[i], 1)
         IN  BodyCalls(names[i], Body(text, start_pos), 1)
                 \o CallsOfFunctions(text, names, i + 1)

extract_function_calls_from_text(text) ==
    CallsOfFunctions(text, func_names(text, 1), 1)

(***************************************************************************)
(* The driver: main (main.rs).                                             *)
(***************************************************************************)
Init ==
    /\ source_code = <<>>
    /\ tu \in Programs
    /\ memory_tracking \in BOOLEAN
    /\ format \in {"dot", "json"}
    /\ phase = "start"
    /\ graph = EmptyGraph
    /\ node_map = EmptyMap
    /\ usr_map = EmptyMap
    /\ pointer_targets = EmptyMap
    /\ processed = {}
    /\ function_calls = <<>>
    /\ pthread_assignments = <<>>
    /\ ast_graph = EmptyGraph
    /\ output = NoOutput

\* FindAllFunctions leaving the functions to the second pass
FindAllFunctions_Skipped ==
    /\ phase = "start"
    /\ phase' = "discovered"
    /\ UNCHANGED <<source_code, tu, memory_tracking, format, graph, node_map, usr_map,
                   pointer_targets, processed, function_calls, pthread_assignments,
                   ast_graph, output>>

\* first pass: identify all functions
FindAllFunctions ==
    /\ phase = "start"
    /\ LET st == find_all_functions(tu, State(graph, node_map, pointer_targets,
                                              usr_map, processed))
       IN  /\ graph' = st.g
           /\ node_map' = st.nm
           /\ usr_map' = st.um
    /\ phase' = "discovered"
    /\ UNCHANGED <<source_code, tu, memory_tracking, format, pointer_targets, processed,
                   function_calls, pthread_assignments, ast_graph, output>>

\* second pass: process the entire AST
AnalyzeProgram ==
    /\ phase = "discovered"
    /\ LET st == analyze_program(tu, State(graph, node_map, pointer_targets,
                                           usr_map, processed), memory_tracking)
       IN  /\ graph' = st.g
           /\ node_map' = st.nm
           /\ usr_map' = st.um
           /\ pointer_targets' = st.pt
           /\ processed' = st.pr
           /\ ast_graph' = st.g
    /\ phase' = "analyzed"
    /\ UNCHANGED <<source_code, tu, memory_tracking, format, function_calls, pthread_assignments,
                   output>>

\* FixDisconnectedCalls going through the extracted pairs in an order of its own
FixDisconnectedCalls_Unordered ==
    /\ phase = "analyzed"
    /\ \E calls \in ListsUpTo(extract_function_calls_from_source(tu), MaxPairs),
          assignments \in ListsUpTo(extract_pthread_assignments(tu), MaxPairs) :
          /\ function_calls' = calls
          /\ pthread_assignments' = assignments
          /\ \E order \in Permutations(DOMAIN calls) :
                graph' = fix_disconnected_calls(graph, node_map,
                            [i \in DOMAIN calls |-> calls[order[i]]], assignments)
    /\ phase' = "finished"
    /\ UNCHANGED <<source_code, tu, memory_tracking, format, node_map, usr_map, pointer_targets,
                   processed, ast_graph, output>>

\* post-process: reconcile with the lists the source scanner extracted
FixDisconnectedCalls ==
    /\ phase = "analyzed"
    /\ \E calls \in ListsUpTo(extract_function_calls_from_source(tu), MaxPairs),
          assignments \in ListsUpTo(extract_pthread_assignments(tu), MaxPairs) :
          /\ function_calls' = calls
          /\ pthread_assignments' = assignments
          /\ graph' = fix_disconnected_calls(graph, node_map, calls, assignments)
    /\ phase' = "finished"
    /\ UNCHANGED <<source_code, tu, memory_tracking, format, node_map, usr_map, pointer_targets,
                   processed, ast_graph, output>>

\* generate the output in the selected format
Serialize ==
    /\ phase = "finished"
    /\ output' = IF format = "json" THEN format_graph_as_json(graph)
                  ELSE format_graph_as_dot(graph)
    /\ phase' = "written"
    /\ UNCHANGED <<source_code, tu, memory_tracking, format, graph, node_map, usr_map,
                   pointer_targets, processed, function_calls, pthread_assignments,
                   ast_graph>>

Next == FindAllFunctions \/ AnalyzeProgram \/ FixDisconnectedCalls \/ Serialize

Spec == Init /\ [][Next]_vars

\* the scanner alone, on every text of up to MaxLines lines
ScanInit ==
    /\ source_code \in ListsUpTo(Lines, MaxLines)
    /\ tu = Ent("TranslationUnit", "input.c", <<>>)
    /\ memory_tracking = FALSE
    /\ format = "dot"
    /\ phase = "start"
    /\ graph = EmptyGraph
    /\ node_map = EmptyMap
    /\ usr_map = EmptyMap
    /\ pointer_targets = EmptyMap
    /\ processed = {}
    /\ function_calls = <<>>
    /\ pthread_assignments = <<>>
    /\ ast_graph = EmptyGraph
    /\ output = NoOutput

\* extract the function calls from the text
ExtractFunctionCalls ==
    /\ phase = "start"
    /\ function_calls' = extract_function_calls_from_text(source_code)
    /\ phase' = "scanned"
    /\ UNCHANGED <<source_code, tu, memory_tracking, format, graph, node_map, usr_map,
                   pointer_targets, processed, pthread_assignments, ast_graph, output>>

ScanNext == ExtractFunctionCalls

ScanSpec == ScanInit /\ [][ScanNext]_vars

(***************************************************************************)
(* Properties of the graph.                                                *)
(***************************************************************************)
Finished == phase \in {"finished", "written"}

NodeIds(g) == 1..Len(g.nodes)

EdgeIds(g) == 1..Len(g.edges)

CallKinds == {"Call", "UnsafeCall", "MemoryOp"}

FunctionKinds == {"Function", "Main"}

\* the function nodes that carry the given name
FunctionNodes(g, name) ==
    {n \in NodeIds(g) : g.nodes[n].kind \in FunctionKinds /\ g.nodes[n].name[2] = name}

\* the basic blocks directly contained in the function nodes of that name
EntryBlocks(g, name) ==
    {b \in NodeIds(g) : g.nodes[b].kind = "BasicBlock"
        /\ \E n \in FunctionNodes(g, name) : HasEdge(g, n, b, "Contains")}

\* the nodes reachable from S along Contains edges
RECURSIVE ContainsClosure(_, _)
ContainsClosure(g, S) ==
    LET T == S \cup {g.edges[i].dst : i \in {j \in EdgeIds(g) :
                        g.edges[j].kind = "Contains" /\ g.edges[j].src \in S}}
    IN  IF T = S THEN S ELSE ContainsClosure(g, T)

\* the labels a call node for callee X can carry
CallLabels(callee) == {Label("Call: ", callee), Label("Unsafe: ", callee), Label("MemoryOp: ", callee)}

\* the front-end supplied a compound body for the function of that name
DeclaredWithBody(name) ==
    \E i \in 1..Len(tu.children) :
        /\ tu.children[i].kind = "FunctionDecl"
        /\ ~is_system_entity(tu.children[i])
        /\ tu.children[i].name = name
        /\ HasBody(tu.children[i])

\* C1: in the finished graph every Calls edge goes from a Call, UnsafeCall or
\* MemoryOp node to a Function or Main node.
C1_CallsEdgesTyped ==
    Finished =>
        \A i \in EdgeIds(graph) :
            graph.edges[i].kind = "Calls" =>
                /\ graph.nodes[graph.edges[i].src].kind \in CallKinds
                /\ graph.nodes[graph.edges[i].dst].kind \in FunctionKinds

\* the call nodes the AST pass left without a Calls edge directly under an
\* entry block of function F, for callee X
Orphans(caller, callee) ==
    {n \in NodeIds(ast_graph) :
        /\ ast_graph.nodes[n].kind \in {"Call", "UnsafeCall"}
        /\ CalleeOfLabel(ast_graph.nodes[n].name) = callee
        /\ ~HasOutEdge(ast_graph, n, "Calls")
        /\ \E b \in EntryBlocks(ast_graph, caller) : HasEdge(ast_graph, b, n, "Contains")}

\* C2: after reconciliation, when the AST pass left an orphan call node for X
\* directly under F's entry block, the scanner reports (F, X) and X is in
\* by_name, the orphan has the Calls edge to by_name[X] and the entry block
\* holds no second Call/UnsafeCall node for X.
C2_NoDuplicateCallNode ==
    Finished =>
        \A i \in 1..Len(function_calls) :
            LET caller == function_calls[i][1]
                callee == function_calls[i][2]
            IN  contains_key(node_map, callee) =>
                  \A n \in Orphans(caller, callee) :
                     /\ HasEdge(graph, n, node_map[callee], "Calls")
                     /\ \A b \in EntryBlocks(graph, caller), m \in NodeIds(graph) :
                           (/\ m # n
                            /\ graph.nodes[m].kind \in {"Call", "UnsafeCall"}
                            /\ CalleeOfLabel(graph.nodes[m].name) = callee
                            /\ HasEdge(graph, b, m, "Contains"))
                           => ~HasEdge(graph, b, n, "Contains")

\* C3: when the AST pass created a call node for X anywhere in the body of F,
\* source-scanner injection adds no node for the pair (F, X).
C3_NoInjectionWhenAstHasCall ==
    Finished =>
        \A i \in 1..Len(function_calls) :
            LET caller == function_calls[i][1]
                callee == function_calls[i][2]
            IN  (\E n \in ContainsClosure(ast_graph, FunctionNodes(ast_graph, caller)) :
                    /\ ast_graph.nodes[n].origin = "call_site"
                    /\ ast_graph.nodes[n].name \in CallLabels(callee))
                => ~\E m \in NodeIds(graph) :
                      /\ graph.nodes[m].origin = "scanner"
                      /\ CalleeOfLabel(graph.nodes[m].name) = callee
                      /\ \E b \in EntryBlocks(graph, caller) : HasEdge(graph, b, m, "Contains")

\* the kinds of the nodes that contain node n
ParentKinds(g, n) ==
    {g.nodes[g.edges[i].src].kind : i \in {j \in EdgeIds(g) :
        g.edges[j].kind = "Contains" /\ g.edges[j].dst = n}}

C5_ResolvableCallsConnected ==
    Finished =>
        \A n \in NodeIds(graph) :
            (/\ graph.nodes[n].kind \in {"Call", "UnsafeCall"}
             /\ CalleeOfLabel(graph.nodes[n].name) # None
             /\ contains_key(node_map, CalleeOfLabel(graph.nodes[n].name))
             /\ ~is_standard_library_function(CalleeOfLabel(graph.nodes[n].name)))
            => HasOutEdge(graph, n, "Calls")

\* the edges from n to a basic block
BlockEdges(g, n) ==
    {i \in EdgeIds(g) : g.edges[i].src = n /\ g.edges[i].kind = "Contains"
                        /\ g.nodes[g.edges[i].dst].kind = "BasicBlock"}

\* C6: in the finished graph a Function or Main node whose function has a
\* compound body has exactly one Contains edge to a basic block, labelled
\* "BasicBlock: entry", and one without a body has none.
C6_OneEntryBlockPerBody ==
    Finished =>
        \A n \in NodeIds(graph) :
            graph.nodes[n].kind \in FunctionKinds =>
                IF DeclaredWithBody(graph.nodes[n].name[2])
                THEN /\ Cardinality(BlockEdges(graph, n)) = 1
                     /\ \A i \in BlockEdges(graph, n) :
                           graph.nodes[graph.edges[i].dst].name
                               = Label("BasicBlock: ", "entry")
                ELSE BlockEdges(graph, n) = {}

\* the Controls edges
ControlsEdges(g) == {i \in EdgeIds(g) : g.edges[i].kind = "Controls"}

\* C7: every UnsafeCall node created by a call expression has exactly one
\* Controls edge into it, from another UnsafeCall node (its shadow), and every
\* Controls edge goes from the shadow created for a call site to that call site.
C7_OneShadowPerUnsafeCall ==
    /\ \A n \in NodeIds(graph) :
          (graph.nodes[n].kind = "UnsafeCall" /\ graph.nodes[n].origin = "call_site")
          => /\ Cardinality({i \in ControlsEdges(graph) : graph.edges[i].dst = n}) = 1
             /\ \A i \in ControlsEdges(graph) :
                   graph.edges[i].dst = n =>
                      /\ graph.edges[i].src # n
                      /\ graph.nodes[graph.edges[i].src].kind = "UnsafeCall"
    /\ \A i \in ControlsEdges(graph) :
          /\ graph.nodes[graph.edges[i].src].origin = "shadow"
          /\ graph.nodes[graph.edges[i].dst].origin = "call_site"
          /\ graph.nodes[graph.edges[i].dst].kind = "UnsafeCall"
          /\ graph.nodes[graph.edges[i].src].name = graph.nodes[graph.edges[i].dst].name
          /\ Cardinality({j \in ControlsEdges(graph) :
                            graph.edges[j].src = graph.edges[i].src}) = 1

\* a finished graph with two unsafe call sites, one of them connected to the
\* function it calls
C7_Witness ==
    /\ Finished
    /\ Cardinality({n \in NodeIds(graph) :
          graph.nodes[n].kind = "UnsafeCall" /\ graph.nodes[n].origin = "call_site"}) >= 2
    /\ \E n \in NodeIds(graph) :
          /\ graph.nodes[n].kind = "UnsafeCall"
          /\ graph.nodes[n].origin = "call_site"
          /\ HasOutEdge(graph, n, "Calls")

\* C8: in the finished graph every Allocates edge goes from a Variable, Pointer
\* or BufferParameter node to a MemoryOp node labelled with an allocator.
C8_AllocatesEdgesTyped ==
    Finished =>
        \A i \in EdgeIds(graph) :
            graph.edges[i].kind = "Allocates" =>
                /\ graph.nodes[graph.edges[i].src].kind
                      \in {"Variable", "Pointer", "BufferParameter"}
                /\ graph.nodes[graph.edges[i].dst].kind = "MemoryOp"
                /\ graph.nodes[graph.edges[i].dst].name \in
                      {Label("MemoryOp: ", "malloc"), Label("MemoryOp: ", "calloc"),
                       Label("MemoryOp: ", "realloc")}

\* C9: with memory tracking off the finished graph has no MemoryOp node.
C9_NoMemoryOpWithoutTracking ==
    (Finished /\ ~memory_tracking) =>
        \A n \in NodeIds(graph) : graph.nodes[n].kind # "MemoryOp"

\* V is linked to T by Uses edges: directly, or through an Assignment node
UsesLink(g, V, T) ==
    \/ HasEdge(g, V, T, "Uses")
    \/ \E a \in NodeIds(g) :
          /\ g.nodes[a].kind = "Assignment"
          /\ HasEdge(g, a, V, "Assigns")
          /\ HasEdge(g, a, T, "Uses")

\* C10: for every entry pointer_targets[V] = T there is a Points edge V -> T,
\* or V is linked to T by Uses edges.
C10_PointerTargetsJustified ==
    \A V \in DOMAIN pointer_targets :
        \/ HasEdge(graph, V, pointer_targets[V], "Points")
        \/ UsesLink(graph, V, pointer_targets[V])

\* the run has ended with one alias recorded by an address-of and another
\* recorded by an assignment from a pointer
C10_Witness ==
    /\ Finished
    /\ \E V \in DOMAIN pointer_targets :
          HasEdge(graph, V, pointer_targets[V], "Points")
    /\ \E V \in DOMAIN pointer_targets :
          /\ ~HasEdge(graph, V, pointer_targets[V], "Points")
          /\ ~HasEdge(graph, V, pointer_targets[V], "Uses")
          /\ UsesLink(graph, V, pointer_targets[V])

\* C11: in the finished graph every References edge targets a Function or
\* Main node.
C11_ReferencesTargetFunctions ==
    Finished =>
        \A i \in EdgeIds(graph) :
            graph.edges[i].kind = "References" =>
                graph.nodes[graph.edges[i].dst].kind \in FunctionKinds

Declarations == {i \in 1..Len(tu.children) :
                    tu.children[i].kind = "FunctionDecl" /\ ~tu.children[i].sys}

\* the first declaration of the function that declaration i declares
FirstDeclaration(i) ==
    CHOOSE j \in Declarations :
        /\ tu.children[j].name = tu.children[i].name
        /\ \A k \in Declarations : tu.children[k].name = tu.children[i].name => j <= k

\* the state of discovery when the first k top-level declarations have been met
DiscoveredUpTo(k) ==
    FindFunctionsInChildren(SubSeq(tu.children, 1, k), 1,
                            State(EmptyGraph, EmptyMap, EmptyMap, EmptyMap, {}))

\* C13: after the discovery pass there is exactly one Function/Main node per
\* distinct non-system function name, created at the first declaration of the
\* name (nodes are numbered in the order of the first declarations), by_name
\* and by_usr point to it and hold nothing else, and a declaration of a name
\* already met leaves the graph, by_name and by_usr as they were.
C13_OneNodePerFunctionName ==
    phase = "discovered" =>
        /\ Len(graph.nodes) = Cardinality({FirstDeclaration(i) : i \in Declarations})
        /\ DOMAIN node_map = {tu.children[i].name : i \in Declarations}
        /\ DOMAIN usr_map = {tu.children[i].usr : i \in Declarations}
        /\ \A i \in Declarations :
              LET name == tu.children[i].name
                  first == FirstDeclaration(i)
              IN  /\ FunctionNodes(graph, name) = {node_map[name]}
                  /\ graph.nodes[node_map[name]].kind
                        = (IF name = "main" THEN "Main" ELSE "Function")
                  /\ node_map[name] = Cardinality({FirstDeclaration(j) : j \in
                                          {k \in Declarations : FirstDeclaration(k) <= first}})
                  /\ usr_map[tu.children[first].usr] = node_map[name]
                  /\ first # i =>
                        find_all_functions(tu.children[i], DiscoveredUpTo(i - 1))
                            = DiscoveredUpTo(i - 1)

\* discovery has met a function declared three times, and main after it
C13_Witness ==
    /\ phase = "discovered"
    /\ \E i, j, k \in Declarations :
          /\ i < j /\ j < k
          /\ tu.children[i].name = tu.children[j].name
          /\ tu.children[j].name = tu.children[k].name
    /\ \E n \in NodeIds(graph) : graph.nodes[n].kind = "Main"

\* a scanner pair that cannot be resolved: the callee is not in by_name, or no
\* function node of the caller's name has an entry block
ScannerPairFails(pair) ==
    \/ ~contains_key(node_map, pair[2])
    \/ EntryBlocks(ast_graph, pair[1]) = {}

\* a pthread pair that cannot be resolved: caller or handler is not in by_name,
\* or the caller's node has no basic block
PthreadPairFails(pair) ==
    \/ ~contains_key(node_map, pair[1])
    \/ ~contains_key(node_map, pair[2])
    \/ ~\E b \in NodeIds(ast_graph) :
          /\ ast_graph.nodes[b].kind = "BasicBlock"
          /\ HasEdge(ast_graph, node_map[pair[1]], b, "Contains")

\* C14: reconciliation skips what it cannot resolve and goes on: the finished
\* graph is the one reconciliation builds from the resolvable pairs alone, so
\* an unresolvable scanner or pthread pair adds no node and no edge and the
\* pairs after it are still processed; and no Calls edge is added from a node
\* whose label has neither the "Call: " nor the "Unsafe: " prefix.
C14_FailuresAreSkipped ==
    Finished =>
        /\ graph = fix_disconnected_calls(ast_graph, node_map,
                      SelectSeq(function_calls, LAMBDA pair : ~ScannerPairFails(pair)),
                      SelectSeq(pthread_assignments, LAMBDA pair : ~PthreadPairFails(pair)))
        /\ \A i \in EdgeIds(graph) :
              (i > Len(ast_graph.edges) /\ graph.edges[i].kind = "Calls")
              => CalleeOfLabel(graph.nodes[graph.edges[i].src].name) # None

\* reconciliation has met a scanner pair it could not resolve, has injected a
\* node for the pair after it, and has met a pthread pair it could not resolve
C14_Witness ==
    /\ Finished
    /\ Len(function_calls) = 2
    /\ ScannerPairFails(function_calls[1])
    /\ ~ScannerPairFails(function_calls[2])
    /\ \E n \in NodeIds(graph) : graph.nodes[n].origin = "scanner"
    /\ \E i \in 1..Len(pthread_assignments) : PthreadPairFails(pthread_assignments[i])

\* s is an initial part of t
IsPrefix(s, t) == Len(s) <= Len(t) /\ SubSeq(t, 1, Len(s)) = s

\* C15: every step of the run keeps the nodes and the edges the graph has, at
\* their indices and as they are, and only appends to them; serialization
\* leaves the graph as it is.
C15_GraphOnlyGrows ==
    [][/\ IsPrefix(graph.nodes, graph'.nodes)
       /\ IsPrefix(graph.edges, graph'.edges)
       /\ phase = "finished" => graph' = graph]_vars

\* an output has been written of a graph to which each pass has added nodes
\* and edges, reconciliation both injected nodes and residual Calls edges
C15_Witness ==
    /\ phase = "written"
    /\ Len(ast_graph.nodes) > Cardinality(Declarations)
    /\ Len(graph.nodes) > Len(ast_graph.nodes)
    /\ PendingEdges(ast_graph, node_map, 1) # <<>>
    /\ Len(output.nodes) = Len(graph.nodes)

\* the graph a run builds from a translation unit, the memory tracking flag
\* and the lists of the source scanner
Rebuilt(root, mt, calls, assignments) ==
    LET st == analyze_program(root,
                  find_all_functions(root, State(EmptyGraph, EmptyMap, EmptyMap,
                                                 EmptyMap, {})),
                  mt)
    IN  fix_disconnected_calls(st.g, st.nm, calls, assignments)

EdgeColourTable ==
    [kind \in EdgeKinds |->
        CASE kind = "Calls" -> "blue"
          [] kind = "Contains" -> "gray"
          [] kind = "Uses" -> "green"
          [] kind = "Defines" -> "purple"
          [] kind = "References" -> "darkblue"
          [] kind = "Assigns" -> "black"
          [] kind = "Points" -> "darkorange"
          [] kind = "Casts" -> "cyan"
          [] kind = "Accesses" -> "pink"
          [] kind = "Allocates" -> "darkgreen"
          [] kind = "Frees" -> "red"
          [] kind = "Controls" -> "red"]

\* C17: for each of the twelve edge kinds the DOT serializer gives the label
\* and the colour the JSON serializer gives, the colour being that of the
\* table; and every edge of a written output carries them.
C17_EdgeStylesAgree ==
    /\ \A kind \in EdgeKinds :
          /\ dot_edge_label(kind) = json_edge_style(kind)[1]
          /\ dot_edge_color(kind) = json_edge_style(kind)[2]
          /\ dot_edge_color(kind) = EdgeColourTable[kind]
    /\ phase = "written" =>
          \A i \in EdgeIds(graph) :
              /\ output.edges[i].color = EdgeColourTable[graph.edges[i].kind]
              /\ output.edges[i].label = dot_edge_label(graph.edges[i].kind)
              /\ output.edges[i].label = json_edge_style(graph.edges[i].kind)[1]

\* a DOT output has been written of a graph with Allocates, Frees, Uses,
\* Contains and Assigns edges
C17_Witness ==
    /\ phase = "written"
    /\ output.syntax = "digraph"
    /\ {"Allocates", "Frees", "Uses", "Contains", "Assigns"}
          \subseteq {graph.edges[i].kind : i \in EdgeIds(graph)}

\* the edges added by fix_disconnected_calls
ReconciliationEdges == (Len(ast_graph.edges) + 1)..Len(graph.edges)

\* the Calls edges of residual call attachment: they leave a call node of the
\* AST pass
ResidualEdges ==
    {i \in ReconciliationEdges :
        /\ graph.edges[i].kind = "Calls"
        /\ graph.edges[i].src <= Len(ast_graph.nodes)}

\* C18: every Calls edge of residual call attachment has a smaller edge index
\* than every edge of source-scanner injection and of pthread handler
\* injection.
C18_ResidualEdgesFirst ==
    Finished =>
        \A i \in ResidualEdges, j \in ReconciliationEdges \ ResidualEdges : i < j

\* the memory primitives
MemoryPrimitives == {"malloc", "calloc", "realloc", "free"}

\* C19: with memory tracking enabled, the call-site node of every call of
\* malloc, calloc, realloc or free is a MemoryOp node labelled with
\* "MemoryOp: " and the name, in whatever expression the call stands.
C19_AllocatorCallsAreMemoryOps ==
    (Finished /\ memory_tracking) =>
        \A n \in NodeIds(graph) :
            (/\ graph.nodes[n].origin = "call_site"
             /\ CalleeOfLabel(graph.nodes[n].name) \in MemoryPrimitives)
            => /\ graph.nodes[n].kind = "MemoryOp"
               /\ graph.nodes[n].name = <<"MemoryOp: ", CalleeOfLabel(graph.nodes[n].name)>>

\* the number of if statements under an entity whose third child is an if
\* statement
RECURSIVE ElseIfs(_)
RECURSIVE ElseIfsIn(_, _)
ElseIfs(entity) ==
    (IF /\ entity.kind = "IfStmt"
        /\ Len(entity.children) >= 3
        /\ entity.children[3].kind = "IfStmt"
     THEN 1 ELSE 0) + ElseIfsIn(entity.children, 1)

ElseIfsIn(children, i) ==
    IF i > Len(children) THEN 0
    ELSE ElseIfs(children[i]) + ElseIfsIn(children, i + 1)

\* the IfStatement nodes reachable by Contains edges from another IfStatement
\* node
NestedIfStatements ==
    {m \in NodeIds(graph) :
        /\ graph.nodes[m].kind = "IfStatement"
        /\ \E n \in NodeIds(graph) \ {m} :
              /\ graph.nodes[n].kind = "IfStatement"
              /\ m \in ContainsClosure(graph, {n})}

\* C20: every if statement whose else branch is itself an if statement gives
\* an IfStatement node reachable by Contains edges from the IfStatement node
\* of the outer statement.
C20_ElseIfNested ==
    Finished => Cardinality(NestedIfStatements) >= ElseIfs(tu)

\* the names of the declaration references at any depth of an entity
RECURSIVE DeclRefNames(_)
RECURSIVE DeclRefNamesIn(_, _)
DeclRefNames(entity) ==
    (IF entity.kind = "DeclRefExpr" THEN {entity.name} ELSE {})
        \cup DeclRefNamesIn(entity.children, 1)

DeclRefNamesIn(children, i) ==
    IF i > Len(children) THEN {}
    ELSE DeclRefNames(children[i]) \cup DeclRefNamesIn(children, i + 1)

\* the if statements at any depth of an entity
RECURSIVE IfStmts(_)
RECURSIVE IfStmtsIn(_, _)
IfStmts(entity) ==
    (IF entity.kind = "IfStmt" THEN {entity} ELSE {})
        \cup IfStmtsIn(entity.children, 1)

IfStmtsIn(children, i) ==
    IF i > Len(children) THEN {}
    ELSE IfStmts(children[i]) \cup IfStmtsIn(children, i + 1)

\* the names every if statement of the translation unit refers to in its
\* condition
NamesInEveryCondition ==
    {name \in DeclRefNames(tu) :
        \A stmt \in IfStmts(tu) : name \in DeclRefNames(stmt.children[1])}

\* C21: a name of by_name that every if statement refers to somewhere in its
\* condition is the target of a Uses edge from every IfStatement node.
C21_ConditionRefsUsed ==
    Finished =>
        \A name \in NamesInEveryCondition :
            contains_key(node_map, name) =>
                \A n \in NodeIds(graph) :
                    graph.nodes[n].kind = "IfStatement"
                    => HasEdge(graph, n, node_map[name], "Uses")

\* the names of the functions called at any depth of an entity
RECURSIVE CalleeNames(_)
RECURSIVE CalleeNamesIn(_, _)
CalleeNames(entity) ==
    (IF entity.kind = "CallExpr" THEN {entity.name} ELSE {})
        \cup CalleeNamesIn(entity.children, 1)

CalleeNamesIn(children, i) ==
    IF i > Len(children) THEN {}
    ELSE CalleeNames(children[i]) \cup CalleeNamesIn(children, i + 1)

\* the functions called in the branch of some if statement that is its
\* child number i
BranchCallees(i) ==
    UNION {CalleeNames(stmt.children[i]) :
             stmt \in {e \in IfStmts(tu) : Len(e.children) >= i}}

\* the functions whose call sites lie under a block called label of the
\* IfStatement node n
BlockCallees(n, label) ==
    LET blocks == {b \in NodeIds(graph) :
                      /\ graph.nodes[b].name = <<"BasicBlock: ", label>>
                      /\ HasEdge(graph, n, b, "Contains")}
    IN  {CalleeOfLabel(graph.nodes[m].name) :
           m \in {k \in ContainsClosure(graph, blocks) :
                     graph.nodes[k].origin = "call_site"}}

\* C22: the call sites under the then block of an IfStatement node come from
\* the then branch of an if statement, those under its else block from an
\* else branch.
C22_BranchesUnderTheirBlock ==
    Finished =>
        \A n \in NodeIds(graph) :
            graph.nodes[n].kind = "IfStatement"
            => /\ BlockCallees(n, "then") \subseteq BranchCallees(2)
               /\ BlockCallees(n, "else") \subseteq BranchCallees(3)

\* C23: at the end of the AST pass every call site of a function declared in
\* the translation unit, before or after the caller, has its Calls edge to the
\* node of the function, as long as by_name still holds that node.
C23_CallsResolvedInAstPass ==
    phase = "analyzed" =>
        \A n \in NodeIds(graph) :
            LET callee == CalleeOfLabel(graph.nodes[n].name)
            IN  (/\ graph.nodes[n].origin = "call_site"
                 /\ callee \in {tu.children[i].name : i \in Declarations}
                 /\ contains_key(node_map, callee)
                 /\ graph.nodes[node_map[callee]].kind \in FunctionKinds)
                => HasEdge(graph, n, node_map[callee], "Calls")

\* the AST pass has connected a call site in run to a function declared after
\* run
C23_Witness ==
    /\ phase = "analyzed"
    /\ contains_key(node_map, "run")
    /\ graph.nodes[node_map["run"]].kind = "Function"
    /\ \E n \in ContainsClosure(graph, {node_map["run"]}), callee \in NodeIds(graph) :
          /\ graph.nodes[n].origin = "call_site"
          /\ graph.nodes[callee].kind = "Function"
          /\ callee > node_map["run"]
          /\ HasEdge(graph, n, callee, "Calls")

\* the Accesses edges leaving node d
AccessesFrom(d) ==
    {i \in EdgeIds(graph) : graph.edges[i].src = d /\ graph.edges[i].kind = "Accesses"}

\* C24: a Dereference node that uses a pointer to which the address of a
\* variable was given before has one Accesses edge, to the target recorded
\* for the pointer.
C24_DereferenceAccessesTarget ==
    Finished =>
        \A d \in NodeIds(graph), u \in EdgeIds(graph) :
            (/\ graph.nodes[d].kind = "Dereference"
             /\ graph.edges[u].src = d
             /\ graph.edges[u].kind = "Uses"
             /\ \E i \in 1..(u - 1) :
                   /\ graph.edges[i].src = graph.edges[u].dst
                   /\ graph.edges[i].kind = "Points")
            => /\ Cardinality(AccessesFrom(d)) = 1
               /\ \E i \in AccessesFrom(d) :
                     graph.edges[i].dst \in
                        {pointer_targets[graph.edges[u].dst]} \cup
                        {graph.edges[j].dst : j \in {k \in 1..(u - 1) :
                             /\ graph.edges[k].src = graph.edges[u].dst
                             /\ graph.edges[k].kind = "Points"}}

\* the lines that are heads of function definitions
Heads == {i \in 1..Len(source_code) : source_code[i].kind = "head"}

\* the pairs of the definitions from the one in line i on, each with the
\* calls of its own body
RECURSIVE PairsOfBodies(_)
PairsOfBodies(i) ==
    IF i > Len(source_code) THEN <<>>
    ELSE (IF i \in Heads
          THEN BodyCalls(source_code[i].name, Body(source_code, i), 1)
          ELSE <<>>) \o PairsOfBodies(i + 1)

\* C25: the scanner yields, for each function definition, one pair per
\* identifier followed by a parenthesis in the brace-matched body of that
\* definition, none for a standard-library function or a reserved word, and
\* none for a definition whose closing brace is missing.
C25_PairsOfEachBody ==
    phase = "scanned" =>
        /\ function_calls = PairsOfBodies(1)
        /\ \A i \in 1..Len(function_calls) :
              /\ ~is_standard_library_function(function_calls[i][2])
              /\ function_calls[i][2] \notin {"if", "for", "while", "switch", "return"}

\* the Calls edges leaving node n
CallsFrom(n) ==
    {i \in EdgeIds(graph) : graph.edges[i].src = n /\ graph.edges[i].kind = "Calls"}

\* C26: in every state of the graph a Call, UnsafeCall or MemoryOp node has at
\* most one outgoing Calls edge.
C26_AtMostOneCallsEdge ==
    \A n \in NodeIds(graph) :
        graph.nodes[n].kind \in {"Call", "UnsafeCall", "MemoryOp"}
        => Cardinality(CallsFrom(n)) <= 1

\* the finished graph has a call site connected by the AST pass, a call node
\* connected by residual call attachment and a node injected for a scanner
\* pair
C26_Witness ==
    /\ Finished
    /\ \E n \in NodeIds(graph) :
          /\ graph.nodes[n].origin = "call_site"
          /\ \E i \in CallsFrom(n) : i <= Len(ast_graph.edges)
    /\ ResidualEdges # {}
    /\ \E n \in NodeIds(graph) :
          /\ graph.nodes[n].origin = "scanner"
          /\ Cardinality(CallsFrom(n)) = 1

\* the Contains edges that enter node n
ContainsInto(n) ==
    {i \in EdgeIds(graph) : graph.edges[i].dst = n /\ graph.edges[i].kind = "Contains"}

\* the nodes no Contains edge leads into
ContainsRoots == {n \in NodeIds(graph) : ContainsInto(n) = {}}

\* C27: in every state of the graph the Contains edges form a forest: a node
\* has at most one inbound Contains edge and lies on no cycle of Contains
\* edges.  With at most one inbound edge per node, walking the edges
\* backwards from a node either ends at a root or runs into a cycle, so
\* there is no cycle exactly when every node is reached from a root.
C27_ContainsForest ==
    /\ \A n \in NodeIds(graph) : Cardinality(ContainsInto(n)) <= 1
    /\ ContainsClosure(graph, ContainsRoots) = NodeIds(graph)

\* the finished graph has an if statement with both blocks under a function
\* body, and a node injected by reconciliation under an entry block
C27_Witness ==
    /\ Finished
    /\ \E n \in NodeIds(graph) :
          /\ graph.nodes[n].kind = "IfStatement"
          /\ Cardinality(ContainsInto(n)) = 1
          /\ Cardinality({b \in NodeIds(graph) :
                /\ graph.nodes[b].kind = "BasicBlock"
                /\ HasEdge(graph, n, b, "Contains")}) = 2
    /\ \E n \in NodeIds(graph) :
          /\ graph.nodes[n].origin = "scanner"
          /\ Cardinality(ContainsInto(n)) = 1

\* the nodes source-scanner injection made for the pair (caller, callee)
ScannerNodes(caller, callee) ==
    {n \in NodeIds(graph) :
        /\ graph.nodes[n].origin = "scanner"
        /\ CalleeOfLabel(graph.nodes[n].name) = callee
        /\ \E b \in EntryBlocks(graph, caller) : HasEdge(graph, b, n, "Contains")}

\* the nodes pthread handler injection made for the pair (caller, handler)
PthreadNodes(caller, handler) ==
    {n \in NodeIds(graph) :
        /\ graph.nodes[n].origin = "pthread"
        /\ HasEdge(graph, n, node_map[handler], "References")
        /\ \E i \in ContainsInto(n) :
              HasEdge(graph, node_map[caller], graph.edges[i].src, "Contains")}

\* C28: however often the scanner reports a pair, reconciliation makes at most
\* one node for it, and going through both lists twice in a row gives the
\* graph that going through them once gives.
C28_OneNodePerPair ==
    Finished =>
        /\ \A i \in 1..Len(function_calls) :
              Cardinality(ScannerNodes(function_calls[i][1], function_calls[i][2])) <= 1
        /\ \A i \in 1..Len(pthread_assignments) :
              (/\ contains_key(node_map, pthread_assignments[i][1])
               /\ contains_key(node_map, pthread_assignments[i][2]))
              => Cardinality(PthreadNodes(pthread_assignments[i][1],
                                          pthread_assignments[i][2])) <= 1
        /\ graph = fix_disconnected_calls(ast_graph, node_map,
                                          function_calls \o function_calls,
                                          pthread_assignments \o pthread_assignments)

\* the scanner has reported a pair of calls twice and a pair of pthread
\* assignments twice, and reconciliation has made a node for each pair
C28_Witness ==
    /\ Finished
    /\ Len(function_calls) = 2
    /\ function_calls[1] = function_calls[2]
    /\ Cardinality(ScannerNodes(function_calls[1][1], function_calls[1][2])) = 1
    /\ Len(pthread_assignments) = 2
    /\ pthread_assignments[1] = pthread_assignments[2]
    /\ contains_key(node_map, pthread_assignments[1][1])
    /\ contains_key(node_map, pthread_assignments[1][2])
    /\ Cardinality(PthreadNodes(pthread_assignments[1][1], pthread_assignments[1][2])) = 1

\* an assignment whose left-hand side is no declaration reference, or one
\* with a name that by_name does not hold
IsUnresolvedAssignment(entity) ==
    /\ entity.kind = "BinaryOperator"
    /\ entity.display = "="
    /\ Len(entity.children) >= 2
    /\ \/ entity.children[1].kind # "DeclRefExpr"
       \/ ~contains_key(node_map, entity.children[1].name)

\* the entity without the statements that are such assignments
RECURSIVE WithoutUnresolved(_)
WithoutUnresolved(entity) ==
    LET kept == IF entity.kind = "CompoundStmt"
                THEN SelectSeq(entity.children, LAMBDA e : ~IsUnresolvedAssignment(e))
                ELSE entity.children
    IN  [entity EXCEPT !.children = [i \in 1..Len(kept) |-> WithoutUnresolved(kept[i])]]

\* the state the two passes reach on a translation unit
Analyzed(root, mt) ==
    analyze_program(root,
        find_all_functions(root, State(EmptyGraph, EmptyMap, EmptyMap, EmptyMap, {})),
        mt)

\* C29: the AST pass leaves the graph, by_name and pointer_targets as they
\* would be without the assignments whose left-hand side is not a declaration
\* reference held by by_name.
C29_UnresolvedAssignmentSkipped ==
    phase = "analyzed" =>
        LET st == Analyzed(WithoutUnresolved(tu), memory_tracking)
        IN  /\ graph = st.g
            /\ node_map = st.nm
            /\ pointer_targets = st.pt

\* the statements of the function bodies of the translation unit
BodyStatements ==
    UNION {{body.children[j] : j \in 1..Len(body.children)} :
           body \in UNION {{tu.children[i].children[k] :
                              k \in {m \in 1..Len(tu.children[i].children) :
                                        tu.children[i].children[m].kind = "CompoundStmt"}} :
                           i \in 1..Len(tu.children)}}

\* the AST pass has gone through *p = f() and through an assignment for which
\* it made an Assignment node
C29_Witness ==
    /\ phase = "analyzed"
    /\ \E stmt \in BodyStatements :
          /\ IsUnresolvedAssignment(stmt)
          /\ stmt.children[1].kind = "UnaryOperator"
    /\ \E n \in NodeIds(graph) : graph.nodes[n].kind = "Assignment"

\* the parameter nodes under node fn
ParameterNodes(fn) ==
    {n \in NodeIds(graph) :
        /\ graph.nodes[n].origin = "parameter"
        /\ HasEdge(graph, fn, n, "Contains")}

\* C30: in the finished graph a Function/Main node has one parameter node per
\* named parameter of the function, however often the function is declared.
C30_OneNodePerParameter ==
    Finished =>
        \A i \in Declarations :
            \A fn \in FunctionNodes(graph, tu.children[i].name) :
                \A j \in Declarations :
                    (/\ tu.children[j].name = tu.children[i].name
                     /\ \A k \in Declarations :
                           tu.children[k].name = tu.children[i].name
                           => Len(tu.children[k].args) <= Len(tu.children[j].args))
                    => Cardinality(ParameterNodes(fn)) = Len(tu.children[j].args)

====
